---- MODULE Spec2Model ----
(***************************************************************************)
(* Model of the pull-based operator pipeline of src/query/plan/operator.cpp *)
(* and of its distributed operators (PullRemote, Synchronize).             *)
(*                                                                         *)
(* The specifications of this module:                                      *)
(*   SpecPR      - one PullRemote cursor, its peers and its local input    *)
(*   SpecPRFair  - the same with peers that answer and a client that pulls *)
(*   SpecSync    - one Synchronize cursor, its peers and the update servers*)
(*   SpecCur     - a single-node pipeline Once -> ScanAll -> range scan -> *)
(*                 Limit | Aggregate                                       *)
(*   SpecExp     - a variable-length expansion and the named path over it  *)
(*   SpecExpand  - Expand over input rows, with remote endpoints           *)
(*   SpecOp      - one operator over input rows, pulled and reset          *)
(*   SpecPlans   - the distributed logical plans of the interpreter        *)
(*   SpecReactor - the master and the workers of src/unnamed/part_000      *)
(* The variables of the parts a specification does not use stay at their   *)
(* initial value.                                                          *)
(***************************************************************************)
EXTENDS Integers, Sequences, FiniteSets, TLC

\* ------------------------------------------------------------------ bounds
\* peers are the workers 1..MaxWorker; the master is worker 0
MaxWorker == 2
\* number of frames one worker can produce over the life of a cursor
MaxFrames == 2
\* number of vertices visible to the scan that is the local input of PullRemote
MaxLocal == 2
\* number of sleep-poll iterations the model follows inside one Pull
MaxSpin == 2

\* number of vertices of the graph the single-node pipeline scans
MaxVertices == 3
\* the property values of those vertices are 0..MaxProp
MaxProp == 1
\* the LIMIT expression evaluates to a value in -1..MaxLimit
MaxLimit == 2
\* number of Pull calls the model follows on the single-node pipeline
MaxPulls == 4

\* the bound expressions of a variable-length expansion evaluate to -1..MaxBound
MaxBound == 2
\* the rows of an input of an operator, and the calls its client makes
MaxRows == 2
MaxCalls == 5
\* the logical plans the interpreter makes, and the worker plans of one of them
MaxPlans == 3
MaxWorkerPlans == 2
\* the workers of the reactor prototype (it is built with one) and the
\* queries its client sends
NUM_WORKERS == 2
MaxQueries == 2

Peers == 1..MaxWorker

\* every worker id of the cluster, the master's included
Workers == 0..MaxWorker

\* ------------------------------------------------------- values and names
PullErrorStates == {"SERIALIZATION_ERROR", "LOCK_TIMEOUT_ERROR",
                    "UPDATE_DELETED_ERROR", "RECONSTRUCTION_ERROR",
                    "QUERY_ERROR"}

RemotePullState == {"CURSOR_EXHAUSTED", "CURSOR_IN_PROGRESS"} \cup PullErrorStates

\* What a peer can answer. Which error state an answer carries is seen only by
\* the switch that takes the future, so the model draws it there.
Answers == {"CURSOR_EXHAUSTED", "CURSOR_IN_PROGRESS", "error"}

Exceptions == {"HintedAbortError", "SerializationError", "LockTimeoutException",
               "QueryRuntimeException", "ReconstructionException"}

NoFuture == [valid |-> FALSE]
PendingFuture == [valid |-> TRUE, ready |-> FALSE]

ReadyFuture(st, fr) ==
  [valid |-> TRUE, ready |-> TRUE, pull_state |-> st, frames |-> fr]

IsFutureReady(fut) == fut.valid /\ fut.ready

SeqRange(s) == {s[i] : i \in 1..Len(s)}

RemoveAt(s, i) == [j \in 1..(Len(s) - 1) |-> IF j < i THEN s[j] ELSE s[j + 1]]

Front(s) == SubSeq(s, 1, Len(s) - 1)

\* ------------------------------------------------------------- variables
VARIABLES
  should_abort,                  \* the transaction's abort hint
  \* PullRemoteCursor
  worker_ids_,
  remote_pulls_,
  remote_results_,
  last_pulled_worker_id_index_,
  remote_pulls_initialized_,
  input_cursor_,                 \* the local input: ScanAll over Once, or absent
  pr_pc,                         \* "idle" | "loop" (inside the poll loop of Pull)
  pr_ret,                        \* result of the last Pull: "None", "Row", "Exhausted" or an exception
  pr_row,                        \* the row put on the frame by the last Pull
  \* the peers, as seen through the RPC client
  worker,
  \* observation of the PullRemote run (not program state)
  h

pr_vars == <<worker_ids_, remote_pulls_, remote_results_,
             last_pulled_worker_id_index_, remote_pulls_initialized_,
             input_cursor_, pr_pc, pr_ret, pr_row, worker, h>>

\* ------------------------------------------------ Once and ScanAll cursors
\* Once::OnceCursor::Pull
OncePull(c) ==
  IF ~c.did_pull_
    THEN [c |-> [did_pull_ |-> TRUE], ret |-> "Row"]
    ELSE [c |-> c, ret |-> "Exhausted"]

NewOnceCursor == [did_pull_ |-> FALSE]

NewScanAllCursor(in) == [input |-> in, has |-> FALSE, vertices_ |-> <<>>, it |-> 1]

\* the tail of ScanAllCursor::Pull: yield the vertex under the iterator
ScanAllYield(c, f, sym) ==
  IF c.it > Len(c.vertices_)
    THEN [c |-> c, f |-> f, ret |-> "Exhausted"]
    ELSE [c |-> [c EXCEPT !.it = @ + 1],
          f |-> [f EXCEPT ![sym] = c.vertices_[c.it]],
          ret |-> "Row"]

\* ScanAllCursor::Pull. r is the result of pulling the input cursor on frame f
\* and verts the result of get_vertices_ on the frame that pull left behind;
\* both are used only on the branch that pulls the input.
ScanAllCursorPull(c, f, r, verts, sym, abort) ==
  IF abort
    THEN [c |-> c, f |-> f, ret |-> "HintedAbortError"]
    ELSE IF ~c.has \/ c.it > Len(c.vertices_)
      THEN IF r.ret # "Row"
        THEN [c |-> [c EXCEPT !.input = r.c], f |-> r.f, ret |-> r.ret]
        ELSE ScanAllYield([c EXCEPT !.input = r.c, !.has = TRUE,
                                    !.vertices_ = verts, !.it = 1],
                          r.f, sym)
      ELSE ScanAllYield(c, f, sym)

\* ---------------------------------------------------------- PullRemote
\* the vertices the local input of PullRemote scans
LocalVertices == [i \in 1..MaxLocal |-> <<0, i>>]

NoRow == <<>>

\* input_cursor_->Pull of PullRemote: ScanAll(Once) on the master
InputPull(c) ==
  LET o == OncePull(c.input)
      r == ScanAllCursorPull(c, [n |-> NoRow], [c |-> o.c, f |-> [n |-> NoRow], ret |-> o.ret],
                             LocalVertices, "n", should_abort)
  IN [c |-> r.c, ret |-> r.ret, row |-> r.f.n]

\* a slip in the switch: lock timeout reported as a serialization error
PullRemoteThrowSwapped(st) ==
  CASE st = "SERIALIZATION_ERROR" -> "SerializationError"
    [] st = "LOCK_TIMEOUT_ERROR" -> "SerializationError"
    [] st = "UPDATE_DELETED_ERROR" -> "QueryRuntimeException"
    [] st = "RECONSTRUCTION_ERROR" -> "ReconstructionException"
    [] st = "QUERY_ERROR" -> "QueryRuntimeException"

\* the exception PullRemote throws for an error state (switch at 3045-3058)
PullRemoteThrow(st) ==
  CASE st = "SERIALIZATION_ERROR" -> "SerializationError"
    [] st = "LOCK_TIMEOUT_ERROR" -> "LockTimeoutException"
    [] st = "UPDATE_DELETED_ERROR" -> "QueryRuntimeException"
    [] st = "RECONSTRUCTION_ERROR" -> "ReconstructionException"
    [] st = "QUERY_ERROR" -> "QueryRuntimeException"

\* a slip in the switch: a new RemotePull also after CURSOR_EXHAUSTED
ResendAlways(st) == st \in {"CURSOR_IN_PROGRESS", "CURSOR_EXHAUSTED"}

\* does the switch at 3036 call insert_future_for_worker for this state
ResendAfter(st) == st = "CURSOR_IN_PROGRESS"

\* one pass of the body of the for loop at 3026 for worker w.
\* acc: the maps as changed so far, err the state that made the loop throw,
\* resent the workers insert_future_for_worker was called for.
PollWorker(acc, w) ==
  IF acc.err # "ok" THEN acc
  ELSE IF acc.results[w] # <<>> THEN acc
  ELSE IF ~acc.pulls[w].valid THEN acc
  ELSE IF ~IsFutureReady(acc.pulls[w]) THEN acc
  ELSE LET res == acc.pulls[w] IN
    IF res.pull_state = "error"
      THEN [acc EXCEPT !.err = acc.kind, !.errw = w,
                       !.errframes = SeqRange(res.frames),
                       \* remote_pull.get() leaves an invalid future in the map
                       !.pulls[w] = [valid |-> TRUE, ready |-> FALSE]]
      ELSE [acc EXCEPT !.results[w] = res.frames,
                       !.pulls[w] = IF ResendAfter(res.pull_state)
                                      THEN PendingFuture ELSE NoFuture,
                       !.resent = IF ResendAfter(res.pull_state)
                                    THEN @ \cup {w} ELSE @,
                       !.inprog = IF res.pull_state = "CURSOR_IN_PROGRESS"
                                    THEN @ \cup {w} ELSE @]

RECURSIVE PollAll(_, _, _)
PollAll(acc, ids, i) ==
  IF i > Len(ids) THEN acc ELSE PollAll(PollWorker(acc, ids[i]), ids, i + 1)

\* a slip at 3066: the search starts at the last-served index itself
StartOffsetAtLast == 1 - 1

\* 3066: the search of the loop at 3064 starts one past the last-served index
StartOffset == 1

\* first offset i of the loop at 3064 whose worker has buffered results
\* (num_workers when there is none)

RECURSIVE RoundRobin(_, _, _, _)
RoundRobin(ids, results, last, i) ==
  IF i >= Len(ids) THEN Len(ids)
  ELSE IF results[ids[((last + i + StartOffset) % Len(ids)) + 1]] # <<>> THEN i
  ELSE RoundRobin(ids, results, last, i + 1)

RemoveServedAlways(ids, idx, results, pulls) == RemoveAt(ids, idx + 1)

\* 3114-3117: drop the worker when it has nothing buffered and nothing pending
RemoveServed(ids, idx, results, pulls) ==
  IF results[ids[idx + 1]] = <<>> /\ ~pulls[ids[idx + 1]].valid
    THEN RemoveAt(ids, idx + 1)
    ELSE ids

\* a slip at 3084: the input is never tried, the cursor only sleeps
NeverTriesLocal(in) == FALSE

\* the guard of the local pulls at 3084 and 3096: input_cursor_ && ...
TriesLocal(in) == in.present

\* remote_pulls_.empty()
NoPulls(pulls) == \A w \in Workers : ~pulls[w].valid

\* the observation kept for the properties, reset by every Pull call
NewCall(hh, abort) ==
  [hh EXCEPT !.spins = 0, !.local_attempts = 0, !.abort_at_call = abort]

\* RemotePull sent to w: counts the request and notes a request to a worker
\* that has already answered CURSOR_EXHAUSTED
NoteSent(hh, ws, wk) ==
  [hh EXCEPT !.sent = [w \in Workers |-> IF w \in ws THEN @[w] + 1 ELSE @[w]],
             !.late_send = @ \/ (\E w \in ws : wk[w].done)]

NoteRequests(wk, ws) ==
  [w \in Workers |-> IF w \in ws THEN [wk[w] EXCEPT !.inflight = @ + 1] ELSE wk[w]]

\* the row a Pull returned: noted, and noted as returned twice when it was
\* returned before
NoteReturned(hh, row) ==
  [hh EXCEPT !.returned = @ \cup {row}, !.twice = @ \/ row \in hh.returned]

\* One iteration of the while loop at 3023 followed, when the loop is left,
\* by the code after it (3094-3119). pulls0, hh0 and wk0 are the futures map,
\* the observation and the peers as the code before the loop left them; kind
\* is the error state carried by an answer the peer failed with.
Iterate(pulls0, hh0, wk0, kind) ==
  LET acc0 == [pulls |-> pulls0, results |-> remote_results_, err |-> "ok", kind |-> kind,
               errw |-> 0, errframes |-> {}, resent |-> {}, inprog |-> {}]
      acc == IF worker_ids_ = <<>> THEN acc0 ELSE PollAll(acc0, worker_ids_, 1)
      hh1 == [NoteSent(hh0, acc.resent, wk0) EXCEPT
                !.inprog = [w \in Workers |-> IF w \in acc.inprog THEN @[w] + 1 ELSE @[w]],
                !.abort_at_iter = should_abort]
      wk1 == NoteRequests(wk0, acc.resent)
      n == Len(worker_ids_)
      off == RoundRobin(worker_ids_, acc.results, last_pulled_worker_id_index_, 0)
      have_remote_results == n > 0 /\ off < n
      idx == (last_pulled_worker_id_index_ + off + StartOffset) % n
      local == InputPull(input_cursor_.c)
      avail == {w \in SeqRange(worker_ids_) : acc.results[w] # <<>>}
      it0 == [buffered |-> have_remote_results, inflight |-> ~NoPulls(acc.pulls),
              attempts |-> 0, local_row |-> FALSE, slept |-> FALSE, threw |-> FALSE]
  IN
  IF acc.err # "ok" THEN
    \* 3045-3058: the switch throws
    /\ remote_pulls_' = acc.pulls
    /\ remote_results_' = acc.results
    /\ worker' = wk1
    /\ pr_pc' = "idle"
    /\ pr_ret' = PullRemoteThrow(acc.err)
    /\ pr_row' = NoRow
    /\ h' = [hh1 EXCEPT !.err = [state |-> acc.err, w |-> acc.errw, frames |-> acc.errframes],
                        !.it = [it0 EXCEPT !.threw = TRUE]]
    /\ UNCHANGED <<worker_ids_, last_pulled_worker_id_index_, input_cursor_>>
  ELSE IF have_remote_results THEN
    \* 3102-3119: serve the last buffered frame of the chosen worker
    LET w == worker_ids_[idx + 1]
        results1 == [acc.results EXCEPT ![w] = Front(@)]
    IN
    /\ remote_pulls_' = acc.pulls
    /\ remote_results_' = results1
    /\ last_pulled_worker_id_index_' = idx
    /\ worker_ids_' = RemoveServed(worker_ids_, idx, results1, acc.pulls)
    /\ worker' = wk1
    /\ pr_pc' = "idle"
    /\ pr_ret' = "Row"
    /\ pr_row' = acc.results[w][Len(acc.results[w])]
    /\ h' = [NoteReturned(hh1, acc.results[w][Len(acc.results[w])]) EXCEPT
                        !.prev_served = hh1.served, !.served = w,
                        !.avail = avail, !.idx_before = last_pulled_worker_id_index_,
                        !.ids_at = worker_ids_, !.it = it0]
    /\ UNCHANGED input_cursor_
  ELSE IF n = 0 \/ NoPulls(acc.pulls) THEN
    \* 3077-3079 and 3094-3100: no remote results are left; drain the input
    /\ remote_pulls_' = acc.pulls
    /\ remote_results_' = acc.results
    /\ worker_ids_' = <<>>
    /\ worker' = wk1
    /\ pr_pc' = "idle"
    /\ IF TriesLocal(input_cursor_)
         THEN /\ input_cursor_' = [input_cursor_ EXCEPT !.c = local.c]
              /\ pr_ret' = local.ret
              /\ pr_row' = IF local.ret = "Row" THEN local.row ELSE NoRow
              /\ h' = [(IF local.ret = "Row" THEN NoteReturned(hh1, local.row) ELSE hh1)
                         EXCEPT !.local_attempts = @ + 1,
                                !.it = [it0 EXCEPT !.attempts = 1,
                                                   !.local_row = local.ret = "Row"]]
         ELSE /\ pr_ret' = "Exhausted"
              /\ pr_row' = NoRow
              /\ h' = [hh1 EXCEPT !.it = it0]
              /\ UNCHANGED input_cursor_
    /\ UNCHANGED last_pulled_worker_id_index_
  ELSE
    \* 3082-3090: nothing buffered, something pending: try the input, else sleep
    /\ remote_pulls_' = acc.pulls
    /\ remote_results_' = acc.results
    /\ worker' = wk1
    /\ IF TriesLocal(input_cursor_) /\ local.ret # "Exhausted"
         THEN /\ input_cursor_' = [input_cursor_ EXCEPT !.c = local.c]
              /\ pr_pc' = "idle"
              /\ pr_ret' = local.ret
              /\ pr_row' = IF local.ret = "Row" THEN local.row ELSE NoRow
              /\ h' = [(IF local.ret = "Row" THEN NoteReturned(hh1, local.row) ELSE hh1)
                         EXCEPT !.local_attempts = @ + 1,
                                !.it = [it0 EXCEPT !.attempts = 1,
                                                   !.local_row = local.ret = "Row"]]
         ELSE /\ input_cursor_' = IF TriesLocal(input_cursor_)
                                    THEN [input_cursor_ EXCEPT !.c = local.c]
                                    ELSE input_cursor_
              /\ pr_pc' = "loop"
              /\ pr_ret' = "None"
              /\ pr_row' = NoRow
              /\ h' = [hh1 EXCEPT !.spins = @ + 1,
                                  !.local_attempts = IF TriesLocal(input_cursor_)
                                                       THEN @ + 1 ELSE @,
                                  !.it = [it0 EXCEPT
                                            !.attempts = IF TriesLocal(input_cursor_)
                                                           THEN 1 ELSE 0,
                                            !.slept = TRUE]]
    /\ UNCHANGED <<worker_ids_, last_pulled_worker_id_index_>>

\* PullRemoteCursor::Pull is called: 3015-3020 send the first RemotePull to
\* every worker of worker_ids_, then the first iteration of the loop runs
PullRemotePull ==
  /\ pr_pc = "idle"
  /\ pr_ret \notin Exceptions
  /\ LET first == IF remote_pulls_initialized_ THEN {} ELSE SeqRange(worker_ids_)
         pulls0 == [w \in Workers |-> IF w \in first THEN PendingFuture
                                                    ELSE remote_pulls_[w]]
     IN \E kind \in PullErrorStates :
          Iterate(pulls0, NoteSent(NewCall(h, should_abort), first, worker),
                  NoteRequests(worker, first), kind)
  /\ remote_pulls_initialized_' = TRUE
  /\ UNCHANGED should_abort

\* the Pull wakes up from sleep_for at 3089 and runs the loop once more
PullRemoteWake ==
  /\ pr_pc = "loop"
  /\ h.spins < MaxSpin
  /\ \E kind \in PullErrorStates : Iterate(remote_pulls_, h, worker, kind)
  /\ UNCHANGED <<remote_pulls_initialized_, should_abort>>

\* the Pull wakes up from sleep_for at 3089 and runs the loop once more, any
\* number of times: the count of the iterations stops past MaxSpin
PullRemoteWakeAgain ==
  /\ pr_pc = "loop"
  /\ \E kind \in PullErrorStates :
       Iterate(remote_pulls_,
               [h EXCEPT !.spins = IF @ <= MaxSpin THEN @ ELSE MaxSpin,
                         !.local_attempts = IF @ <= MaxSpin THEN @ ELSE MaxSpin],
               worker, kind)
  /\ UNCHANGED <<remote_pulls_initialized_, should_abort>>

\* A peer answers the RemotePull it was sent: the future becomes ready.
\* CURSOR_IN_PROGRESS carries a full batch (at least one frame).
FramesOf(w, from, k) == [i \in 1..k |-> <<w, from + i>>]

WorkerRespondWith(w, answers) ==
  /\ remote_pulls_[w].valid /\ ~remote_pulls_[w].ready
  /\ worker[w].inflight > 0
  /\ \E st \in answers :
       \E k \in 0..(MaxFrames - worker[w].produced) :
         /\ st = "CURSOR_IN_PROGRESS" => k >= 1
         /\ st = "error" => k <= 1
         /\ remote_pulls_' = [remote_pulls_ EXCEPT
               ![w] = ReadyFuture(st, FramesOf(w, worker[w].produced, k))]
         /\ worker' = [worker EXCEPT ![w].inflight = @ - 1,
                                     ![w].produced = @ + k,
                                     ![w].done = @ \/ st = "CURSOR_EXHAUSTED"]
  /\ UNCHANGED <<worker_ids_, remote_results_, last_pulled_worker_id_index_,
                 remote_pulls_initialized_, input_cursor_, pr_pc, pr_ret,
                 pr_row, h, should_abort>>

WorkerRespond(w) == WorkerRespondWith(w, Answers)

\* the transaction is asked to abort (db_.should_abort() turns true)
RequestAbort ==
  /\ ~should_abort
  /\ should_abort' = TRUE

\* GetWorkerIds() of the RPC clients: the master and the peers
GetWorkerIds == [i \in 1..(MaxWorker + 1) |-> i - 1]

\* PullRemoteCursor::PullRemoteCursor: the master (id 0) leaves the list
MasterRemoved(ids) ==
  RemoveAt(ids, CHOOSE i \in 1..Len(ids) : ids[i] = 0)

NewHistory ==
  [sent |-> [w \in Workers |-> 0], inprog |-> [w \in Workers |-> 0],
   late_send |-> FALSE, served |-> 0, prev_served |-> 0, avail |-> {},
   idx_before |-> 0, ids_at |-> <<>>, spins |-> 0, local_attempts |-> 0,
   abort_at_call |-> FALSE, abort_at_iter |-> FALSE,
   returned |-> {}, twice |-> FALSE,
   err |-> [state |-> "ok", w |-> 0, frames |-> {}],
   it |-> [buffered |-> FALSE, inflight |-> FALSE, attempts |-> 0,
           local_row |-> FALSE, slept |-> FALSE, threw |-> FALSE]]

InitPullRemote ==
  /\ worker_ids_ = MasterRemoved(GetWorkerIds)
  /\ remote_pulls_ = [w \in Workers |-> NoFuture]
  /\ remote_results_ = [w \in Workers |-> <<>>]
  /\ last_pulled_worker_id_index_ = 0
  /\ remote_pulls_initialized_ = FALSE
  /\ pr_pc = "idle"
  /\ pr_ret = "None"
  /\ pr_row = NoRow
  /\ worker = [w \in Workers |-> [inflight |-> 0, produced |-> 0, done |-> FALSE]]
  /\ h = NewHistory

\* ---------------------------------------------------------- Synchronize
VARIABLES
  self_,                         \* the Synchronize operator: advance_command, pull_remote
  sync_input_cursor_,            \* input_cursor_ of SynchronizeCursor: ScanAll over Once
  initial_pull_done_,
  local_frames_,
  worker_accumulations,          \* the futures of InitialPull, in request order
  apply_futures,
  notify_futures,
  sync_pc,                       \* "idle" | "accumulate" | "apply" | "notify" | "yield" | "pull_remote"
  sync_i,                        \* position of the for loop that awaits futures
  sync_ret,
  sync_row,
  command,                       \* command index of the transaction on the master
  node,                          \* per worker: its accumulation and its update server
  hs                             \* observation of the Synchronize run (not program state)

sync_vars == <<self_, sync_input_cursor_, initial_pull_done_, local_frames_,
               worker_accumulations, apply_futures, notify_futures, sync_pc,
               sync_i, sync_ret, sync_row, command, node, hs>>

UpdateErrors == {"SERIALIZATION_ERROR", "UPDATE_DELETED_ERROR", "LOCK_TIMEOUT_ERROR"}

RemoteUpdateResult == {"DONE"} \cup UpdateErrors

\* What Apply can answer. Which error an answer carries is seen only by the
\* switch that takes it, so the model draws it there.
ApplyAnswers == {"DONE", "error"}

\* a slip in the switch at 3220: an accumulation still in progress is let through
AccumulateThrowLenient(st) ==
  CASE st = "CURSOR_EXHAUSTED" -> "ok"
    [] st = "CURSOR_IN_PROGRESS" -> "ok"
    [] st = "SERIALIZATION_ERROR" -> "SerializationError"
    [] st = "UPDATE_DELETED_ERROR" -> "QueryRuntimeException"
    [] st = "LOCK_TIMEOUT_ERROR" -> "LockTimeoutException"
    [] st = "RECONSTRUCTION_ERROR" -> "QueryRuntimeException"
    [] st = "QUERY_ERROR" -> "QueryRuntimeException"

\* the switch at 3220-3242 on the state of an accumulation: "ok" is continue
AccumulateThrow(st) ==
  CASE st = "CURSOR_EXHAUSTED" -> "ok"
    [] st = "CURSOR_IN_PROGRESS" -> "QueryRuntimeException"
    [] st = "SERIALIZATION_ERROR" -> "SerializationError"
    [] st = "UPDATE_DELETED_ERROR" -> "QueryRuntimeException"
    [] st = "LOCK_TIMEOUT_ERROR" -> "LockTimeoutException"
    [] st = "RECONSTRUCTION_ERROR" -> "QueryRuntimeException"
    [] st = "QUERY_ERROR" -> "QueryRuntimeException"

\* the switch at 3255-3267 on the result of a remote apply: "ok" is break
ApplyThrow(res) ==
  CASE res = "DONE" -> "ok"
    [] res = "SERIALIZATION_ERROR" -> "SerializationError"
    [] res = "UPDATE_DELETED_ERROR" -> "QueryRuntimeException"
    [] res = "LOCK_TIMEOUT_ERROR" -> "LockTimeoutException"

\* the workers InitialPull talks to: GetWorkerIds() without db.WorkerId()
OtherWorkers == SelectSeq(GetWorkerIds, LAMBDA w : w # 0)

NewFutures(ids) == [i \in 1..Len(ids) |-> [w |-> ids[i], ready |-> FALSE]]

\* a slip in the loop at 3219: only the first accumulation is awaited
AwaitedFirstOnly(futs, i) == i > Len(futs) \/ i > 1

\* the for loops at 3219, 3254 and 3274 have gone through all their futures
Awaited(futs, i) == i > Len(futs)

\* while (input_cursor_->Pull(frame, context)) at 3209-3216
RECURSIVE Accumulated(_, _)
Accumulated(c, frames) ==
  LET r == InputPull(c)
  IN IF r.ret = "Row"
       THEN Accumulated(r.c, Append(frames, r.row))
       ELSE [c |-> r.c, frames |-> frames, ret |-> r.ret]

\* the update server that buffers the deferred updates worker w issues: the
\* records w writes to are owned by the next worker of the cluster
OwnerOfWrites(w) == (w + 1) % (MaxWorker + 1)

Deferred(nd, w) == [nd EXCEPT ![OwnerOfWrites(w)].updates = "deferred"]

\* what Apply(tx) does to the update server of a worker for a given result
ApplyOn(nd, w, res) ==
  [nd EXCEPT ![w].updates = IF res = "DONE" /\ @ = "deferred" THEN "applied" ELSE @,
             ![w].apply_result = res]

Step(hh, name) == [hh EXCEPT !.steps = Append(@, name)]

\* The first Pull of SynchronizeCursor enters InitialPull: 3198-3216 send the
\* accumulate requests and drain the input
SyncPull ==
  /\ sync_pc = "idle"
  /\ ~initial_pull_done_
  /\ sync_ret \notin Exceptions
  /\ LET acc == Accumulated(sync_input_cursor_, <<>>)
         asked == IF self_.pull_remote THEN OtherWorkers ELSE <<>>
         nd1 == [w \in Workers |->
                   IF w \in SeqRange(asked)
                     THEN [node[w] EXCEPT !.accumulate_requested = TRUE]
                     ELSE node[w]]
         hs1 == IF self_.pull_remote THEN Step(hs, "accumulate_sent") ELSE hs
     IN /\ worker_accumulations' = NewFutures(asked)
        /\ sync_input_cursor_' = acc.c
        /\ local_frames_' = acc.frames
        /\ IF acc.ret = "Exhausted"
             THEN /\ sync_pc' = "accumulate"
                  /\ sync_ret' = "None"
                  /\ node' = IF acc.frames # <<>> THEN Deferred(nd1, 0) ELSE nd1
                  /\ hs' = Step(hs1, "drained")
             ELSE \* the input threw
                  /\ sync_pc' = "idle"
                  /\ sync_ret' = acc.ret
                  /\ node' = nd1
                  /\ hs' = hs1
  /\ sync_i' = 1
  /\ sync_row' = NoRow
  /\ UNCHANGED <<self_, initial_pull_done_, apply_futures, notify_futures, command>>

\* accu.get() at 3220 returns for the next accumulation
SyncAwaitAccumulation ==
  /\ sync_pc = "accumulate"
  /\ ~Awaited(worker_accumulations, sync_i)
  /\ worker_accumulations[sync_i].ready
  /\ \E kind \in PullErrorStates :
       LET ans == worker_accumulations[sync_i].res
           st == IF ans = "error" THEN kind ELSE ans
       IN IF AccumulateThrow(st) = "ok"
            THEN /\ sync_i' = sync_i + 1
                 /\ UNCHANGED <<sync_pc, sync_ret>>
                 /\ hs' = hs
            ELSE /\ sync_pc' = "idle"
                 /\ sync_ret' = AccumulateThrow(st)
                 /\ hs' = [hs EXCEPT !.accumulate_failed = st]
                 /\ UNCHANGED sync_i
  /\ UNCHANGED <<self_, sync_input_cursor_, initial_pull_done_, local_frames_,
                 worker_accumulations, apply_futures, notify_futures, sync_row,
                 command, node>>

\* 3245-3253: every accumulation is in; advance the command, send apply-all to
\* the other workers and apply on the local update server, whose result the
\* statement at 3253 drops
SyncApplyAll ==
  /\ sync_pc = "accumulate"
  /\ Awaited(worker_accumulations, sync_i)
  /\ command' = IF self_.advance_command THEN command + 1 ELSE command
  /\ apply_futures' = NewFutures(OtherWorkers)
  /\ \E res \in ApplyAnswers :
       /\ node' = ApplyOn([w \in Workers |->
                             IF w # 0 THEN [node[w] EXCEPT !.apply_requested = TRUE]
                                      ELSE node[w]],
                          0, res)
       /\ hs' = LET h1 == Step(hs, "accumulations_awaited")
                    h2 == IF self_.advance_command THEN Step(h1, "command_advanced") ELSE h1
                IN Step(Step(h2, "apply_sent"), "local_apply")
  /\ sync_pc' = "apply"
  /\ sync_i' = 1
  /\ UNCHANGED <<self_, sync_input_cursor_, initial_pull_done_, local_frames_,
                 worker_accumulations, notify_futures, sync_ret, sync_row>>

\* future.get() at 3255 returns for the next apply
SyncAwaitApply ==
  /\ sync_pc = "apply"
  /\ ~Awaited(apply_futures, sync_i)
  /\ apply_futures[sync_i].ready
  /\ \E kind \in UpdateErrors :
       LET ans == apply_futures[sync_i].res
           res == IF ans = "error" THEN kind ELSE ans
       IN IF ApplyThrow(res) = "ok"
            THEN /\ sync_i' = sync_i + 1
                 /\ UNCHANGED <<sync_pc, sync_ret>>
                 /\ hs' = hs
            ELSE /\ sync_pc' = "idle"
                 /\ sync_ret' = ApplyThrow(res)
                 /\ hs' = [hs EXCEPT !.apply_failed = res]
                 /\ UNCHANGED sync_i
  /\ UNCHANGED <<self_, sync_input_cursor_, initial_pull_done_, local_frames_,
                 worker_accumulations, apply_futures, notify_futures, sync_row,
                 command, node>>

\* 3270-3275: every apply is in; with advance_command the workers are notified
SyncNotify ==
  /\ sync_pc = "apply"
  /\ Awaited(apply_futures, sync_i)
  /\ IF self_.advance_command
       THEN /\ notify_futures' = NewFutures(OtherWorkers)
            /\ node' = [w \in Workers |->
                          IF w # 0 THEN [node[w] EXCEPT !.notify_requested = TRUE]
                                   ELSE node[w]]
            /\ sync_pc' = "notify"
            /\ hs' = Step(Step(hs, "applies_awaited"), "notify_sent")
       ELSE /\ sync_pc' = "yield"
            /\ hs' = Step(hs, "applies_awaited")
            /\ UNCHANGED <<notify_futures, node>>
  /\ sync_i' = 1
  /\ UNCHANGED <<self_, sync_input_cursor_, initial_pull_done_, local_frames_,
                 worker_accumulations, apply_futures, sync_ret, sync_row, command>>

\* future.wait() at 3274 returns for the next notification
SyncAwaitNotify ==
  /\ sync_pc = "notify"
  /\ IF Awaited(notify_futures, sync_i)
       THEN /\ sync_pc' = "yield"
            /\ hs' = Step(hs, "notify_awaited")
            /\ UNCHANGED sync_i
       ELSE /\ notify_futures[sync_i].ready
            /\ sync_i' = sync_i + 1
            /\ UNCHANGED <<sync_pc, hs>>
  /\ UNCHANGED <<self_, sync_input_cursor_, initial_pull_done_, local_frames_,
                 worker_accumulations, apply_futures, notify_futures, sync_ret,
                 sync_row, command, node>>

OutOfLocalAlways(frames) == TRUE

\* 3163 and 3176: pull_remote is pulled only when local_frames_ is empty
OutOfLocal(frames) == frames = <<>>

\* 3161-3174: InitialPull is over (or was done by an earlier Pull) and a
\* buffered local frame is there: the last one is yielded
SyncYieldLocal ==
  /\ sync_pc = "yield" \/ (sync_pc = "idle" /\ initial_pull_done_ /\ sync_ret \notin Exceptions)
  /\ local_frames_ # <<>>
  /\ initial_pull_done_' = TRUE
  /\ sync_row' = local_frames_[Len(local_frames_)]
  /\ local_frames_' = Front(local_frames_)
  /\ sync_ret' = "Row"
  /\ sync_pc' = "idle"
  /\ hs' = [hs EXCEPT !.local_yielded = @ + 1]
  /\ UNCHANGED <<self_, sync_input_cursor_, worker_accumulations, apply_futures,
                 notify_futures, sync_i, command, node>>

\* 3176-3180 without a pull_remote cursor
SyncYieldNothing ==
  /\ sync_pc = "yield" \/ (sync_pc = "idle" /\ initial_pull_done_ /\ sync_ret \notin Exceptions)
  /\ OutOfLocal(local_frames_)
  /\ ~self_.pull_remote
  /\ initial_pull_done_' = TRUE
  /\ sync_row' = NoRow
  /\ sync_ret' = "Exhausted"
  /\ sync_pc' = "idle"
  /\ UNCHANGED <<self_, sync_input_cursor_, local_frames_, worker_accumulations,
                 apply_futures, notify_futures, sync_i, command, node, hs>>

\* what Synchronize returns once pull_remote_cursor_->Pull has returned
SyncAfterRemote ==
  /\ sync_pc' = IF pr_pc' = "idle" THEN "idle" ELSE "pull_remote"
  /\ sync_ret' = IF pr_pc' = "idle" THEN pr_ret' ELSE "None"
  /\ sync_row' = IF pr_pc' = "idle" THEN pr_row' ELSE NoRow
  /\ UNCHANGED <<self_, sync_input_cursor_, local_frames_, worker_accumulations,
                 apply_futures, notify_futures, sync_i, command, node, hs>>

\* 3176-3178: out of local frames, pull_remote_cursor_->Pull is called
SyncYieldRemote ==
  /\ sync_pc = "yield" \/ (sync_pc = "idle" /\ initial_pull_done_ /\ sync_ret \notin Exceptions)
  /\ OutOfLocal(local_frames_)
  /\ self_.pull_remote
  /\ initial_pull_done_' = TRUE
  /\ PullRemotePull
  /\ SyncAfterRemote

\* pull_remote_cursor_->Pull wakes up inside Synchronize's Pull
SyncRemoteWake ==
  /\ sync_pc = "pull_remote"
  /\ PullRemoteWake
  /\ SyncAfterRemote
  /\ UNCHANGED initial_pull_done_

\* A worker ends the accumulation it was asked for and answers. Its upstream
\* writes to records of another worker are deferred updates on the owner.
WorkerAccumulate(i) ==
  /\ i \in 1..Len(worker_accumulations)
  /\ ~worker_accumulations[i].ready
  /\ \E ans \in Answers :
       LET w == worker_accumulations[i].w
       IN /\ worker_accumulations' =
               [worker_accumulations EXCEPT ![i] = [w |-> w, ready |-> TRUE, res |-> ans]]
          /\ node' = IF ans = "CURSOR_EXHAUSTED"
                       THEN Deferred([node EXCEPT ![w].accumulated = TRUE], w)
                       ELSE node
  /\ UNCHANGED <<self_, sync_input_cursor_, initial_pull_done_, local_frames_,
                 apply_futures, notify_futures, sync_pc, sync_i, sync_ret,
                 sync_row, command, hs>>

\* A worker's update server runs Apply for the transaction and answers
WorkerApply(i) ==
  /\ i \in 1..Len(apply_futures)
  /\ ~apply_futures[i].ready
  /\ \E res \in ApplyAnswers :
       LET w == apply_futures[i].w
       IN /\ apply_futures' =
               [apply_futures EXCEPT ![i] = [w |-> w, ready |-> TRUE, res |-> res]]
          /\ node' = ApplyOn(node, w, res)
  /\ UNCHANGED <<self_, sync_input_cursor_, initial_pull_done_, local_frames_,
                 worker_accumulations, notify_futures, sync_pc, sync_i, sync_ret,
                 sync_row, command, hs>>

\* A worker takes note of the advanced command and answers
WorkerCommandAdvanced(i) ==
  /\ i \in 1..Len(notify_futures)
  /\ ~notify_futures[i].ready
  /\ LET w == notify_futures[i].w
     IN /\ notify_futures' = [notify_futures EXCEPT ![i] = [w |-> w, ready |-> TRUE]]
        /\ node' = [node EXCEPT ![w].command_advanced = TRUE]
  /\ UNCHANGED <<self_, sync_input_cursor_, initial_pull_done_, local_frames_,
                 worker_accumulations, apply_futures, sync_pc, sync_i, sync_ret,
                 sync_row, command, hs>>

\* the transaction is asked to abort while the first Pull of Synchronize is
\* under way (nothing that runs after InitialPull reads the hint)
RequestAbortEarly ==
  /\ ~initial_pull_done_
  /\ RequestAbort

NewNode ==
  [accumulate_requested |-> FALSE, accumulated |-> FALSE, updates |-> "none",
   apply_requested |-> FALSE, apply_result |-> "none", notify_requested |-> FALSE,
   command_advanced |-> FALSE]

NewSyncHistory ==
  [steps |-> <<>>, accumulate_failed |-> "ok", apply_failed |-> "ok",
   local_yielded |-> 0]

InitSynchronize ==
  /\ sync_input_cursor_ = NewScanAllCursor(NewOnceCursor)
  /\ initial_pull_done_ = FALSE
  /\ local_frames_ = <<>>
  /\ worker_accumulations = <<>>
  /\ apply_futures = <<>>
  /\ notify_futures = <<>>
  /\ sync_pc = "idle"
  /\ sync_i = 1
  /\ sync_ret = "None"
  /\ sync_row = NoRow
  /\ command = 0
  /\ node = [w \in Workers |-> NewNode]
  /\ hs = NewSyncHistory

\* ------------------------------------------------- single-node pipeline
\* Once -> ScanAll(a) -> ScanAllByLabelPropertyRange(b, bound a.p) -> top,
\* where top is nothing, Limit or Aggregate(count(*)).
VARIABLES
  graph,                         \* the property p of every vertex (all carry the label)
  plan,                          \* top operator, kind of range bound, limit value, group-by
  cursor,                        \* the state of the cursors of the plan, nested by input
  frame,                         \* the frame the pipeline writes
  cur_ret,                       \* result of the last Pull of the top cursor
  cur_prev,                      \* result of the Pull before it ("None" after Reset)
  cur_op,                        \* "None" | "Pull" | "Reset": the last call on the top cursor
  cur_calls,                     \* number of calls made
  cur_rows                       \* the frames returned as rows since the last Reset

cur_vars == <<graph, plan, cursor, frame, cur_ret, cur_prev, cur_op, cur_calls,
              cur_rows>>

Null == 0

AllVertices == [i \in 1..MaxVertices |-> i]

\* db.Vertices(label, property, lower, upper): the bound is exclusive and is
\* the property of the vertex the input row holds under a
InRange(kind, p, bound) == IF kind = "lower" THEN p > bound ELSE p < bound

RangeVertices(f) ==
  IF f.a = Null THEN <<>>
  ELSE SelectSeq(AllVertices, LAMBDA v : InRange(plan.bound, graph[v], graph[f.a]))

\* ScanAll(a) over Once
ScanAllPull(c, f) ==
  LET o == OncePull(c.input)
  IN ScanAllCursorPull(c, f, [c |-> o.c, f |-> f, ret |-> o.ret],
                       AllVertices, "a", should_abort)

\* ScanAllByLabelPropertyRange(b) over ScanAll(a): the same ScanAllCursor with
\* the get_vertices_ of 385-396
ScanRangePull(c, f) ==
  LET r == ScanAllPull(c.input, f)
  IN ScanAllCursorPull(c, f, r, RangeVertices(r.f), "b", should_abort)

NewScanRangeCursor == NewScanAllCursor(NewScanAllCursor(NewOnceCursor))

\* Once::OnceCursor::Reset and ScanAllCursor::Reset
ScanRangeReset(c) == NewScanRangeCursor

\* Limit::LimitCursor::Pull
LimitPull(c, f) ==
  LET lim == IF c.limit_ = -1 THEN plan.limit ELSE c.limit_
      r == ScanRangePull(c.input, f)
  IN IF c.limit_ = -1 /\ lim < 0
       THEN [c |-> [c EXCEPT !.limit_ = lim], f |-> f, ret |-> "QueryRuntimeException"]
     ELSE IF c.pulled_ >= lim
       THEN [c |-> [c EXCEPT !.limit_ = lim, !.pulled_ = @ + 1], f |-> f, ret |-> "Exhausted"]
     ELSE [c |-> [c EXCEPT !.limit_ = lim, !.pulled_ = @ + 1, !.input = r.c],
           f |-> r.f, ret |-> r.ret]

NewLimitCursor == [input |-> NewScanRangeCursor, limit_ |-> -1, pulled_ |-> 0]

\* Limit::LimitCursor::Reset
LimitReset(c) == NewLimitCursor

\* the group of a row: the value of the group-by expression a, or one group
GroupOf(f) == IF plan.group_by THEN f.a ELSE Null

\* typed values of the aggregations: null, an integer, a list
TNull == <<"Null">>
TInt(n) == <<"Int", n>>
TList(l) == <<"List", l>>

\* DefaultAggregationOpValue for COUNT
DefaultCount == 0

\* DefaultAggregationOpValue
DefaultAggregationOpValue(op) ==
  CASE op = "COUNT" -> DefaultCount
    [] op \in {"SUM", "MIN", "MAX", "AVG"} -> TNull
    [] op = "COLLECT_LIST" -> TList(<<>>)

\* Aggregate::AggregateCursor::EnsureInitialized for count(*), sum(b) and
\* collect(b)
NewAggregationValue(key) ==
  [key |-> key, count |-> DefaultAggregationOpValue("COUNT"),
   sum |-> DefaultAggregationOpValue("SUM"),
   collect |-> DefaultAggregationOpValue("COLLECT_LIST")]

\* Aggregate::AggregateCursor::Update: count(*) counts every row, the other
\* aggregations skip a Null input value
Update(v, input_value) ==
  [v EXCEPT !.count = @ + 1,
            !.sum = IF input_value = Null THEN @
                    ELSE IF @ = TNull THEN TInt(input_value)
                    ELSE TInt(@[2] + input_value),
            !.collect = IF input_value = Null THEN @ ELSE TList(Append(@[2], input_value))]

\* Aggregate::AggregateCursor::ProcessOne: the value of the group of the row
\* is initialized when the group is new, and updated
ProcessOne(agg, f) ==
  IF \E i \in 1..Len(agg) : agg[i].key = GroupOf(f)
    THEN [i \in 1..Len(agg) |->
            IF agg[i].key = GroupOf(f) THEN Update(agg[i], f.b) ELSE agg[i]]
    ELSE Append(agg, Update(NewAggregationValue(GroupOf(f)), f.b))

\* Aggregate::AggregateCursor::ProcessAll: while (input_cursor_->Pull(...))
RECURSIVE ProcessAll(_, _, _)
ProcessAll(c, f, agg) ==
  LET r == ScanRangePull(c, f)
  IN IF r.ret = "Row"
       THEN ProcessAll(r.c, r.f, ProcessOne(agg, r.f))
       ELSE [c |-> r.c, f |-> r.f, agg |-> agg, ret |-> r.ret]

\* the part of Aggregate::AggregateCursor::Pull after the input was processed
AggregateYield(c, f) ==
  IF c.aggregation_it_ > Len(c.aggregation_)
    THEN [c |-> c, f |-> f, ret |-> "Exhausted"]
    ELSE [c |-> [c EXCEPT !.aggregation_it_ = @ + 1],
          f |-> [f EXCEPT !.count = c.aggregation_[c.aggregation_it_].count,
                          !.sum = c.aggregation_[c.aggregation_it_].sum,
                          !.collect = c.aggregation_[c.aggregation_it_].collect,
                          !.a = c.aggregation_[c.aggregation_it_].key],
          ret |-> "Row"]

NoInput(agg, group_by) == agg = <<>>

\* 2140: there was no input and there are no group-bys
NoInputNoGroupBy(agg, group_by) == agg = <<>> /\ ~group_by

\* Aggregate::AggregateCursor::Pull
AggregatePull(c, f) ==
  IF ~c.pulled_all_input_
    THEN LET p == ProcessAll(c.input, f, c.aggregation_)
             c1 == [c EXCEPT !.input = p.c, !.aggregation_ = p.agg]
         IN IF p.ret # "Exhausted"
              THEN [c |-> c1, f |-> p.f, ret |-> p.ret]
            ELSE IF NoInputNoGroupBy(p.agg, plan.group_by)
              THEN [c |-> [c1 EXCEPT !.pulled_all_input_ = TRUE, !.aggregation_it_ = 1],
                    f |-> [p.f EXCEPT !.count = DefaultAggregationOpValue("COUNT"),
                                      !.sum = DefaultAggregationOpValue("SUM"),
                                      !.collect = DefaultAggregationOpValue("COLLECT_LIST"),
                                      !.a = Null],
                    ret |-> "Row"]
            ELSE AggregateYield([c1 EXCEPT !.pulled_all_input_ = TRUE,
                                           !.aggregation_it_ = 1], p.f)
    ELSE AggregateYield(c, f)

NewAggregateCursor ==
  [input |-> NewScanRangeCursor, pulled_all_input_ |-> FALSE,
   aggregation_ |-> <<>>, aggregation_it_ |-> 1]

\* Aggregate::AggregateCursor::Reset
AggregateReset(c) == NewAggregateCursor

\* the optional plan of Optional: ScanAllByLabelPropertyRange(b) over Once,
\* its bound taken from the a of the row of Optional's input
OptionalPlanPull(c, f) ==
  LET o == OncePull(c.input)
  IN ScanAllCursorPull(c, f, [c |-> o.c, f |-> f, ret |-> o.ret],
                       RangeVertices(f), "b", should_abort)

OptionalNullsKept(f) == f

\* 2756-2757: the optional symbols are set to Null
OptionalNulls(f) == [f EXCEPT !.b = Null]

\* Optional::OptionalCursor::Pull, its input ScanAll(a) over Once
RECURSIVE OptionalPull(_, _)
OptionalPull(c, f) ==
  LET i == IF c.pull_input_ THEN ScanAllPull(c.input, f)
                            ELSE [c |-> c.input, f |-> f, ret |-> "Row"]
      c1 == [c EXCEPT !.input = i.c,
                      !.optional_ = IF c.pull_input_ THEN NewScanAllCursor(NewOnceCursor)
                                                     ELSE @]
      o == OptionalPlanPull(c1.optional_, i.f)
      c2 == [c1 EXCEPT !.optional_ = o.c]
  IN IF i.ret # "Row" THEN [c |-> [c EXCEPT !.input = i.c], f |-> i.f, ret |-> i.ret]
     ELSE IF o.ret = "Row"
       THEN [c |-> [c2 EXCEPT !.pull_input_ = FALSE], f |-> o.f, ret |-> "Row"]
     ELSE IF o.ret # "Exhausted" THEN [c |-> c2, f |-> o.f, ret |-> o.ret]
     ELSE IF c.pull_input_
       THEN [c |-> [c2 EXCEPT !.pull_input_ = TRUE], f |-> OptionalNulls(o.f), ret |-> "Row"]
     ELSE OptionalPull([c2 EXCEPT !.pull_input_ = TRUE], o.f)

NewOptionalCursor ==
  [input |-> NewScanAllCursor(NewOnceCursor),
   optional_ |-> NewScanAllCursor(NewOnceCursor), pull_input_ |-> TRUE]

\* Optional::OptionalCursor::Reset
OptionalReset(c) == NewOptionalCursor

\* the vertex the create plan of Merge puts into b
Created == MaxVertices + 1

\* CreateNode::CreateNodeCursor::Pull over Once: the create plan of Merge
CreateNodePull(c, f) ==
  LET o == OncePull(c.input)
  IN IF o.ret = "Row"
       THEN [c |-> [c EXCEPT !.input = o.c], f |-> [f EXCEPT !.b = Created], ret |-> "Row"]
       ELSE [c |-> [c EXCEPT !.input = o.c], f |-> f, ret |-> o.ret]

NewCreateNodeCursor == [input |-> NewOnceCursor]

MergeMatchKept(c) == c

\* 2664-2665: merge_match_cursor_->Reset() after a successful input pull
MergeMatchReset(c) == NewScanAllCursor(NewOnceCursor)

\* 2666: merge_create_cursor_->Reset()
MergeCreateReset(c) == NewCreateNodeCursor

\* Merge::MergeCursor::Pull, its input ScanAll(a) over Once and its match
\* plan the range scan of b bounded by a.p; create_pulls counts the calls of
\* merge_create_cursor_->Pull
RECURSIVE MergePull(_, _)
MergePull(c, f) ==
  LET i == IF c.pull_input_ THEN ScanAllPull(c.input, f)
                            ELSE [c |-> c.input, f |-> f, ret |-> "Row"]
      c1 == IF c.pull_input_
              THEN [c EXCEPT !.input = i.c,
                             !.merge_match_ = MergeMatchReset(@),
                             !.merge_create_ = MergeCreateReset(@)]
              ELSE c
      m == OptionalPlanPull(c1.merge_match_, i.f)
      c2 == [c1 EXCEPT !.merge_match_ = m.c]
      cr == CreateNodePull(c2.merge_create_, m.f)
  IN IF i.ret # "Row" THEN [c |-> [c EXCEPT !.input = i.c], f |-> i.f, ret |-> i.ret]
     ELSE IF m.ret = "Row"
       THEN [c |-> [c2 EXCEPT !.pull_input_ = FALSE], f |-> m.f, ret |-> "Row"]
     ELSE IF m.ret # "Exhausted" THEN [c |-> c2, f |-> m.f, ret |-> m.ret]
     ELSE IF c.pull_input_
       THEN [c |-> [c2 EXCEPT !.merge_create_ = cr.c, !.create_pulls = @ + 1],
             f |-> cr.f, ret |-> "Row"]
     ELSE MergePull([c2 EXCEPT !.pull_input_ = TRUE], m.f)

NewMergeCursor ==
  [input |-> NewScanAllCursor(NewOnceCursor),
   merge_match_ |-> NewScanAllCursor(NewOnceCursor),
   merge_create_ |-> NewCreateNodeCursor, pull_input_ |-> TRUE, create_pulls |-> 0]

\* Merge::MergeCursor::Reset
MergeReset(c) == NewMergeCursor

TopPull(c, f) ==
  CASE plan.top = "ScanRange" -> ScanRangePull(c, f)
    [] plan.top = "Limit" -> LimitPull(c, f)
    [] plan.top = "Aggregate" -> AggregatePull(c, f)
    [] plan.top = "Optional" -> OptionalPull(c, f)
    [] plan.top = "Merge" -> MergePull(c, f)

TopReset(c) ==
  CASE plan.top = "ScanRange" -> ScanRangeReset(c)
    [] plan.top = "Limit" -> LimitReset(c)
    [] plan.top = "Aggregate" -> AggregateReset(c)
    [] plan.top = "Optional" -> OptionalReset(c)
    [] plan.top = "Merge" -> MergeReset(c)

NewFrame == [a |-> Null, b |-> Null, count |-> Null, sum |-> TNull, collect |-> TNull]

\* the client pulls from the top cursor
CursorPull ==
  /\ cur_calls < MaxPulls
  /\ cur_ret \notin Exceptions
  /\ LET r == TopPull(cursor, frame)
     IN /\ cursor' = r.c
        /\ frame' = r.f
        /\ cur_ret' = r.ret
        /\ cur_rows' = IF r.ret = "Row" THEN Append(cur_rows, r.f) ELSE cur_rows
  /\ cur_prev' = cur_ret
  /\ cur_op' = "Pull"
  /\ cur_calls' = cur_calls + 1
  /\ UNCHANGED <<graph, plan, should_abort>>

\* the client (an Optional, Merge or Cartesian above) resets the top cursor
CursorReset ==
  /\ cur_calls < MaxPulls
  /\ cur_ret \notin Exceptions
  /\ cur_op = "Pull"
  /\ cursor' = TopReset(cursor)
  /\ cur_ret' = "None"
  /\ cur_prev' = "None"
  /\ cur_op' = "Reset"
  /\ cur_rows' = <<>>
  /\ cur_calls' = cur_calls + 1
  /\ UNCHANGED <<graph, plan, frame, should_abort>>

Plans ==
  {[top |-> "ScanRange", bound |-> b, limit |-> 0, group_by |-> FALSE] :
      b \in {"lower", "upper"}}
  \cup {[top |-> "Limit", bound |-> b, limit |-> n, group_by |-> FALSE] :
      b \in {"lower", "upper"}, n \in -1..MaxLimit}
  \cup {[top |-> "Aggregate", bound |-> b, limit |-> 0, group_by |-> g] :
      b \in {"lower", "upper"}, g \in BOOLEAN}
  \cup {[top |-> t, bound |-> b, limit |-> 0, group_by |-> FALSE] :
      t \in {"Optional", "Merge"}, b \in {"lower", "upper"}}

NewTopCursor(p) ==
  CASE p.top = "ScanRange" -> NewScanRangeCursor
    [] p.top = "Limit" -> NewLimitCursor
    [] p.top = "Aggregate" -> NewAggregateCursor
    [] p.top = "Optional" -> NewOptionalCursor
    [] p.top = "Merge" -> NewMergeCursor

InitPipeline ==
  /\ graph \in [1..MaxVertices -> 0..MaxProp]
  /\ plan \in Plans
  /\ cursor = NewTopCursor(plan)
  /\ frame = NewFrame
  /\ cur_ret = "None"
  /\ cur_prev = "None"
  /\ cur_op = "None"
  /\ cur_calls = 0
  /\ cur_rows = <<>>

\* the variables of the pipeline in the specifications that do not run it
NoPipeline ==
  /\ graph = [v \in 1..MaxVertices |-> 0]
  /\ plan = [top |-> "ScanRange", bound |-> "lower", limit |-> 0, group_by |-> FALSE]
  /\ cursor = NewScanRangeCursor
  /\ frame = NewFrame
  /\ cur_ret = "None"
  /\ cur_prev = "None"
  /\ cur_op = "None"
  /\ cur_calls = 0
  /\ cur_rows = <<>>

\* ------------------------------------------- variable-length expansion
\* ExpandVariable (depth-first, breadth-first, weighted shortest path) over an
\* input that yields the source vertices.
VARIABLES
  ex_graph,                      \* the edges of the graph: a set of indices of CandidateEdges
  ex_plan,                       \* the ExpandVariable operator
  ex_sources,                    \* the vertices (or Null) the input yields, in order
  ex_cursor,                     \* the cursor of the operator
  ex_frame,                      \* the frame: a (input symbol), node, edges, w (total weight)
  ex_ret,                        \* result of the last Pull
  ex_rows,                       \* the frames returned as rows so far
  ex_path                        \* the named paths of the last row, one for each set of
                                 \* symbols an enclosing Optional may have set to Null

ex_vars == <<ex_graph, ex_plan, ex_sources, ex_cursor, ex_frame, ex_ret, ex_rows,
             ex_path>>

\* the edges a graph is made of: from, to and the value of the weight lambda
CandidateEdges ==
  << [from |-> 1, to |-> 2, w |-> 1],
     [from |-> 2, to |-> 3, w |-> 1],
     [from |-> 1, to |-> 3, w |-> 3],
     [from |-> 3, to |-> 4, w |-> 1],
     [from |-> 1, to |-> 4, w |-> 5],
     [from |-> 3, to |-> 1, w |-> 1],
     [from |-> 2, to |-> 2, w |-> 1] >>

EdgeIds == 1..Len(CandidateEdges)

From(e) == CandidateEdges[e].from
To(e) == CandidateEdges[e].to
Weight(e) == CandidateEdges[e].w

\* vertex.in(&edge_types) and vertex.out(&edge_types)
InEdges(v) == SelectSeq([e \in EdgeIds |-> e], LAMBDA e : e \in ex_graph /\ To(e) = v)
OutEdges(v) == SelectSeq([e \in EdgeIds |-> e], LAMBDA e : e \in ex_graph /\ From(e) = v)

\* ExpandFromVertex: the chain of the in-edges and the out-edges of a vertex,
\* each with its direction
ExpandFromVertex(v, direction) ==
  (IF direction # "OUT" THEN [i \in 1..Len(InEdges(v)) |-> <<InEdges(v)[i], "IN">>] ELSE <<>>)
  \o (IF direction # "IN" THEN [i \in 1..Len(OutEdges(v)) |-> <<OutEdges(v)[i], "OUT">>]
                          ELSE <<>>)

\* ExpandCommon::HandleExistingNode
HandleExistingNode(new_node, f) ==
  IF ex_plan.existing_node
    THEN [ok |-> f.node # Null /\ f.node = new_node, f |-> f]
    ELSE [ok |-> TRUE, f |-> [f EXCEPT !.node = new_node]]

\* the filter lambda: the expansion must not enter the vertex ex_plan.avoid
EvaluateFilter(e, v) == v # ex_plan.avoid

\* std::numeric_limits<int64_t>::max(), the upper bound when none is given:
\* any value above the number of edges
NoUpperBound == 1000

\* the lower bound when none is given
DefaultLowerBound == 1

\* a bound expression is <<>> when the operator has none, else <<its value>>
NoExpr == <<>>

\* the input of the expansion: a scan that yields ex_sources into a
ExInputPull(c, f) ==
  LET o == OncePull(c.input)
  IN ScanAllCursorPull(c, f, [c |-> o.c, f |-> f, ret |-> o.ret], ex_sources, "a",
                       should_abort)

Min(a, b) == IF a < b THEN a ELSE b

\* the first n elements of a list and its last n elements
Keep(s, n) == SubSeq(s, 1, Min(Len(s), n))
KeepLast(s, n) == SubSeq(s, Len(s) - Min(Len(s), n) + 1, Len(s))

\* 984-991: the edge list on the frame is cut to the depth of the stack
TrimEdges(on_frame, depth) ==
  IF ex_plan.is_reverse THEN KeepLast(on_frame, depth) ELSE Keep(on_frame, depth)

\* ExpandVariableCursor::AppendEdge
AppendEdge(new_edge, on_frame, depth) ==
  IF ex_plan.is_reverse
    THEN <<new_edge>> \o KeepLast(on_frame, depth - 1)
    ELSE Append(Keep(on_frame, depth - 1), new_edge)

\* 965-968: pop the levels of the stack that are exhausted
RECURSIVE PopExhausted(_)
PopExhausted(c) ==
  IF c.edges_ # <<>> /\ c.edges_it_[Len(c.edges_it_)] > Len(c.edges_[Len(c.edges_)])
    THEN PopExhausted([c EXCEPT !.edges_ = Front(@), !.edges_it_ = Front(@)])
    ELSE c

FoundExistingLong(on_frame, e) ==
  Len(on_frame) >= 2 /\ \E i \in 1..Len(on_frame) : on_frame[i] = e

\* 998-1003: edge-uniqueness, the edge is already in the list on the frame
FoundExisting(on_frame, e) == \E i \in 1..Len(on_frame) : on_frame[i] = e

PushAlways(upper, depth) == TRUE

\* 1023: a further level is pushed only below the upper bound
PushBelow(upper, depth) == upper > depth

\* ExpandVariableCursor::Expand
RECURSIVE Expand(_, _)
Expand(c0, f0) ==
  LET c == PopExhausted(c0)
  IN IF c.edges_ = <<>> THEN [c |-> c, f |-> f0, ok |-> FALSE]
     ELSE
       LET depth == Len(c.edges_)
           on_frame == TrimEdges(f0.edges, depth)
           current_edge == c.edges_[depth][c.edges_it_[depth]]
           c1 == [c EXCEPT !.edges_it_[depth] = @ + 1]
           f1 == [f0 EXCEPT !.edges = on_frame]
           appended == AppendEdge(current_edge[1], on_frame, depth)
           current_vertex == IF current_edge[2] = "IN" THEN From(current_edge[1])
                                                       ELSE To(current_edge[1])
           hn == HandleExistingNode(current_vertex, [f1 EXCEPT !.edges = appended])
           c2 == IF PushBelow(c.upper_bound_, depth)
                   THEN [c1 EXCEPT
                           !.edges_ = Append(@, ExpandFromVertex(current_vertex,
                                                                 ex_plan.direction)),
                           !.edges_it_ = Append(@, 1)]
                   ELSE c1
       IN IF FoundExisting(on_frame, current_edge[1])
            THEN Expand(c1, f1)
          ELSE IF ~hn.ok THEN Expand(c1, hn.f)
          ELSE IF ~EvaluateFilter(current_edge[1], current_vertex) THEN Expand(c1, hn.f)
          ELSE IF Len(appended) >= c.lower_bound_ THEN [c |-> c2, f |-> hn.f, ok |-> TRUE]
          ELSE Expand(c2, hn.f)

BoundNeverNegative(b) == FALSE

\* 899-905: a bound that evaluates below zero raises
BoundIsNegative(b) == b # NoExpr /\ b[1] < 0

RECURSIVE PullInput(_, _)
\* ExpandVariableCursor::PullInput
PullInput(c, f) ==
  LET i == ExInputPull(c.input, f)
      c1 == [c EXCEPT !.input = i.c]
      lower == IF ex_plan.lower = NoExpr THEN DefaultLowerBound ELSE ex_plan.lower[1]
      upper == IF ex_plan.upper = NoExpr THEN NoUpperBound ELSE ex_plan.upper[1]
      c2 == [c1 EXCEPT !.lower_bound_ = lower, !.upper_bound_ = upper]
      c3 == IF upper > 0
              THEN [c2 EXCEPT
                      !.edges_ = Append(@, ExpandFromVertex(i.f.a, ex_plan.direction)),
                      !.edges_it_ = Append(@, 1)]
              ELSE c2
  IN IF i.ret # "Row" THEN [c |-> c1, f |-> i.f, ret |-> i.ret]
     ELSE IF i.f.a = Null THEN PullInput(c1, i.f)
     ELSE IF BoundIsNegative(ex_plan.lower)
       THEN [c |-> c1, f |-> i.f, ret |-> "QueryRuntimeException"]
     ELSE IF BoundIsNegative(ex_plan.upper)
       THEN [c |-> [c1 EXCEPT !.lower_bound_ = lower], f |-> i.f,
             ret |-> "QueryRuntimeException"]
     ELSE [c |-> c3, f |-> [i.f EXCEPT !.edges = <<>>], ret |-> "Row"]

\* ExpandVariableCursor::Pull
RECURSIVE ExpandVariablePull(_, _)
ExpandVariablePull(c, f) ==
  LET e == Expand(c, f)
      p == PullInput(e.c, e.f)
      hn == HandleExistingNode(p.f.a, p.f)
  IN IF e.ok THEN [c |-> e.c, f |-> e.f, ret |-> "Row"]
     ELSE IF p.ret # "Row" THEN p
     ELSE IF p.c.lower_bound_ = 0 /\ hn.ok THEN [c |-> p.c, f |-> hn.f, ret |-> "Row"]
     ELSE ExpandVariablePull(p.c, IF p.c.lower_bound_ = 0 THEN hn.f ELSE p.f)

NewExpandVariableCursor ==
  [input |-> NewScanAllCursor(NewOnceCursor), edges_ |-> <<>>, edges_it_ |-> <<>>,
   lower_bound_ |-> -1, upper_bound_ |-> -1]

NoEdge == 0

\* no vertex processed: the empty map
NoneProcessed == [v \in {} |-> NoEdge]

\* expand_from_vertex of the breadth-first and the weighted cursor: the
\* out-edges with their far end, then the in-edges with theirs
ExpansionsFrom(v) ==
  (IF ex_plan.direction # "IN"
     THEN [i \in 1..Len(OutEdges(v)) |-> <<OutEdges(v)[i], To(OutEdges(v)[i])>>] ELSE <<>>)
  \o (IF ex_plan.direction # "OUT"
        THEN [i \in 1..Len(InEdges(v)) |-> <<InEdges(v)[i], From(InEdges(v)[i])>>] ELSE <<>>)

\* expand_pair of ExpandBreadthFirstCursor::Pull, for the pairs in order
RECURSIVE BfsExpandPairs(_, _)
BfsExpandPairs(c, pairs) ==
  IF pairs = <<>> THEN c
  ELSE LET edge == Head(pairs)[1]
           vertex == Head(pairs)[2]
       IN IF vertex \in DOMAIN c.processed_ \/ ~EvaluateFilter(edge, vertex)
            THEN BfsExpandPairs(c, Tail(pairs))
            ELSE BfsExpandPairs(
                   [c EXCEPT !.to_visit_next_ = Append(@, <<edge, vertex>>),
                             !.processed_ = (vertex :> edge) @@ @],
                   Tail(pairs))

\* the other end of an edge
OtherEnd(e, v) == IF From(e) = v THEN To(e) ELSE From(e)

\* 1136-1147: the edges from the expansion back to the source, following
\* the map from a vertex to the edge it was discovered by
RECURSIVE PathBack(_, _, _)
PathBack(via, edge_list, last_vertex) ==
  LET origin == OtherEnd(edge_list[Len(edge_list)], last_vertex)
  IN IF via[origin] = NoEdge THEN edge_list
     ELSE PathBack(via, Append(edge_list, via[origin]), origin)

Reverse(s) == [i \in 1..Len(s) |-> s[Len(s) + 1 - i]]

ExpandAtAnyDepth(len, upper) == TRUE

\* 1150-1151: an expansion is expanded further only below the upper bound
ExpandBelow(len, upper) == len < upper

\* ExpandBreadthFirstCursor::Pull
RECURSIVE ExpandBreadthFirstPull(_, _)
ExpandBreadthFirstPull(c0, f) ==
  LET c == IF c0.to_visit_current_ = <<>>
             THEN [c0 EXCEPT !.to_visit_current_ = c0.to_visit_next_,
                             !.to_visit_next_ = <<>>]
             ELSE c0
  IN IF c.to_visit_current_ = <<>>
       THEN LET i == ExInputPull(c.input, f)
                c1 == [c EXCEPT !.input = i.c, !.processed_ = NoneProcessed]
                c2 == BfsExpandPairs([c1 EXCEPT !.processed_ = (i.f.a :> NoEdge)],
                                     ExpansionsFrom(i.f.a))
                lower == IF ex_plan.lower = NoExpr THEN DefaultLowerBound ELSE ex_plan.lower[1]
                upper == IF ex_plan.upper = NoExpr THEN NoUpperBound ELSE ex_plan.upper[1]
                c3 == [c2 EXCEPT !.lower_bound_ = lower, !.upper_bound_ = upper]
            IN IF i.ret # "Row" THEN [c |-> [c EXCEPT !.input = i.c], f |-> i.f, ret |-> i.ret]
               ELSE IF i.f.a = Null THEN ExpandBreadthFirstPull(c1, i.f)
               ELSE IF upper < 1 THEN [c |-> c3, f |-> i.f, ret |-> "QueryRuntimeException"]
               ELSE ExpandBreadthFirstPull(c3, i.f)
       ELSE LET expansion == Head(c.to_visit_current_)
                c1 == [c EXCEPT !.to_visit_current_ = Tail(@)]
                edge_list == PathBack(c.processed_, <<expansion[1]>>, expansion[2])
                c2 == IF ExpandBelow(Len(edge_list), c.upper_bound_)
                        THEN BfsExpandPairs(c1, ExpansionsFrom(expansion[2]))
                        ELSE c1
            IN IF Len(edge_list) < c.lower_bound_ THEN ExpandBreadthFirstPull(c2, f)
               ELSE IF ex_plan.existing_node /\ (f.node = Null \/ f.node # expansion[2])
                 THEN ExpandBreadthFirstPull(c2, f)
               ELSE [c |-> c2,
                     f |-> [f EXCEPT !.node = expansion[2], !.edges = Reverse(edge_list)],
                     ret |-> "Row"]

NewExpandBreadthFirstCursor ==
  [input |-> NewScanAllCursor(NewOnceCursor), processed_ |-> NoneProcessed,
   to_visit_current_ |-> <<>>, to_visit_next_ |-> <<>>,
   lower_bound_ |-> -1, upper_bound_ |-> -1]

\* expand_pair of ExpandWeightedShortestPathCursor::Pull, for the pairs in order
RECURSIVE WspExpandPairs(_, _, _)
WspExpandPairs(c, from, pairs) ==
  IF pairs = <<>> THEN c
  ELSE LET edge == Head(pairs)[1]
           vertex == Head(pairs)[2]
           total_weight == c.weights_[from] + Weight(edge)
       IN IF ~EvaluateFilter(edge, vertex)
             \/ (vertex \in DOMAIN c.weights_ /\ c.weights_[vertex] <= total_weight)
            THEN WspExpandPairs(c, from, Tail(pairs))
            ELSE WspExpandPairs(
                   [c EXCEPT !.pq_ = Append(@, [vertex |-> vertex, edge |-> edge,
                                                weight |-> total_weight])],
                   from, Tail(pairs))

\* pq_.top(): an entry of the lowest weight, the earliest pushed of them
Top(pq) ==
  CHOOSE i \in 1..Len(pq) :
    /\ \A j \in 1..Len(pq) : pq[i].weight <= pq[j].weight
    /\ \A j \in 1..(i - 1) : pq[j].weight > pq[i].weight

\* 1305-1315: the edges from a vertex back to the source, following previous_
RECURSIVE WspPathBack(_, _, _)
WspPathBack(previous, edge_list, last_vertex) ==
  IF previous[last_vertex] = NoEdge THEN edge_list
  ELSE WspPathBack(previous, Append(edge_list, previous[last_vertex]),
                   OtherEnd(previous[last_vertex], last_vertex))

\* ExpandWeightedShortestPathCursor::Pull
RECURSIVE ExpandWeightedShortestPathPull(_, _)
ExpandWeightedShortestPathPull(c, f) ==
  IF c.pq_ = <<>>
    THEN LET i == ExInputPull(c.input, f)
             c1 == [c EXCEPT !.input = i.c]
             upper == IF ex_plan.upper = NoExpr THEN NoUpperBound ELSE ex_plan.upper[1]
         IN IF i.ret # "Row" THEN [c |-> c1, f |-> i.f, ret |-> i.ret]
            ELSE IF i.f.a = Null THEN ExpandWeightedShortestPathPull(c1, i.f)
            ELSE IF ex_plan.existing_node /\ i.f.node = Null
              THEN ExpandWeightedShortestPathPull(c1, i.f)
            ELSE IF upper < 1
              THEN [c |-> [c1 EXCEPT !.upper_bound_ = upper], f |-> i.f,
                    ret |-> "QueryRuntimeException"]
            ELSE ExpandWeightedShortestPathPull(
                   [c1 EXCEPT !.upper_bound_ = upper, !.previous_ = NoneProcessed,
                              !.weights_ = NoneProcessed,
                              !.pq_ = <<[vertex |-> i.f.a, edge |-> NoEdge, weight |-> 0]>>],
                   i.f)
    ELSE LET current == c.pq_[Top(c.pq_)]
             c1 == [c EXCEPT !.pq_ = RemoveAt(@, Top(c.pq_))]
             c2 == [c1 EXCEPT !.previous_ = (current.vertex :> current.edge) @@ @,
                              !.weights_ = (current.vertex :> current.weight) @@ @]
             edge_list == WspPathBack(c2.previous_, <<>>, current.vertex)
             c3 == IF Len(edge_list) < c.upper_bound_
                     THEN WspExpandPairs(c2, current.vertex, ExpansionsFrom(current.vertex))
                     ELSE c2
         IN IF current.vertex \in DOMAIN c.weights_
              THEN ExpandWeightedShortestPathPull(c1, f)
            ELSE IF edge_list = <<>> THEN ExpandWeightedShortestPathPull(c3, f)
            ELSE IF ex_plan.existing_node /\ f.node # current.vertex
              THEN ExpandWeightedShortestPathPull(c3, f)
            ELSE [c |-> IF ex_plan.existing_node THEN [c3 EXCEPT !.pq_ = <<>>] ELSE c3,
                  f |-> [f EXCEPT !.node = current.vertex,
                                  !.edges = IF ex_plan.is_reverse THEN edge_list
                                                                  ELSE Reverse(edge_list),
                                  !.w = current.weight],
                  ret |-> "Row"]

NewExpandWeightedShortestPathCursor ==
  [input |-> NewScanAllCursor(NewOnceCursor), upper_bound_ |-> -1,
   weights_ |-> NoneProcessed, previous_ |-> NoneProcessed, pq_ |-> <<>>]

\* ExpandVariable::MakeCursor
NewExpansionCursor(p) ==
  CASE p.type = "DFS" -> NewExpandVariableCursor
    [] p.type = "BFS" -> NewExpandBreadthFirstCursor
    [] p.type = "WSP" -> NewExpandWeightedShortestPathCursor

ExpansionPull(c, f) ==
  CASE ex_plan.type = "DFS" -> ExpandVariablePull(c, f)
    [] ex_plan.type = "BFS" -> ExpandBreadthFirstPull(c, f)
    [] ex_plan.type = "WSP" -> ExpandWeightedShortestPathPull(c, f)

\* the operators the model runs: every direction and every pair of bounds
\* (given or not), with one of: nothing more, an existing end node, the
\* reversed edge list, a filter lambda
\* ---- ConstructNamedPath over the expansion
\* typed values of the path elements on the frame
NullValue == <<"Null">>
VertexValue(v) == <<"Vertex", v>>
EdgeValue(e) == <<"Edge", e>>
EdgeListValue(es) == <<"List", es>>

\* what is written under the path symbol: Null, or a path
PathNull == [null |-> TRUE, vertices |-> <<>>, edges |-> <<>>]
PathFrom(v) == [null |-> FALSE, vertices |-> <<v>>, edges |-> <<>>]

\* query::Path::Expand
ExpandVertex(path, v) == [path EXCEPT !.vertices = Append(@, v)]
ExpandEdge(path, e) == [path EXCEPT !.edges = Append(@, e)]

Last(seq) == seq[Len(seq)]

AlwaysTo(back, e) == To(e)

\* 1458-1462: the vertex an edge of the list leads to from the back of the path
NextVertex(back, e) == IF back = From(e) THEN To(e) ELSE From(e)

\* 1456-1463: expand all the edges of the list and the intermediary vertices
RECURSIVE ExpandEdgeList(_, _)
ExpandEdgeList(path, edges) ==
  IF edges = <<>> THEN path
  ELSE ExpandEdgeList(
         ExpandVertex(ExpandEdge(path, Head(edges)),
                      NextVertex(Last(path.vertices), Head(edges))),
         Tail(edges))

\* 1439-1472: the loop over the path elements after the first
RECURSIVE ExpandElements(_, _, _)
ExpandElements(path, elements, last_was_edge_list) ==
  IF elements = <<>> THEN path
  ELSE LET expansion == Head(elements)
       IN CASE expansion[1] = "Null" -> PathNull
            [] expansion[1] = "Vertex" ->
                 ExpandElements(IF last_was_edge_list THEN path
                                ELSE ExpandVertex(path, expansion[2]),
                                Tail(elements), FALSE)
            [] expansion[1] = "Edge" ->
                 ExpandElements(ExpandEdge(path, expansion[2]), Tail(elements),
                                last_was_edge_list)
            [] expansion[1] = "List" ->
                 ExpandElements(ExpandEdgeList(path, expansion[2]), Tail(elements), TRUE)

\* ConstructNamedPathCursor::Pull: the value written under the path symbol
ConstructNamedPath(elements) ==
  LET start_vertex == Head(elements)
  IN IF start_vertex[1] = "Null" THEN PathNull
     ELSE ExpandElements(PathFrom(start_vertex[2]), Tail(elements), FALSE)

\* the symbols an Optional around the pattern has set to Null on the frame:
\* none, those of the expansion, or those of the whole pattern
NulledByOptional == <<{}, {"edges", "node"}, {"a", "edges", "node"}>>

\* the path elements of the pattern (a)-[edges*]-(node), in the order of the
\* pattern: an expansion planned in reverse starts from its last node
PathElements(f, nulled) ==
  LET value(sym) == IF sym \in nulled \/ (sym # "edges" /\ f[sym] = Null) THEN NullValue
                    ELSE IF sym = "edges" THEN EdgeListValue(f.edges)
                    ELSE VertexValue(f[sym])
  IN IF ex_plan.is_reverse
       THEN <<value("node"), value("edges"), value("a")>>
       ELSE <<value("a"), value("edges"), value("node")>>

NoPathYet == <<PathNull, PathNull, PathNull>>

ExpansionPlans ==
  {[type |-> t, direction |-> d, lower |-> l, upper |-> u,
    existing_node |-> (x = "existing_node"), is_reverse |-> (x = "is_reverse"),
    avoid |-> IF x = "filter" THEN 2 ELSE Null] :
     t \in {"DFS", "BFS", "WSP"}, d \in {"IN", "OUT", "BOTH"},
     l \in {NoExpr} \cup {<<n>> : n \in -1..MaxBound},
     u \in {NoExpr} \cup {<<n>> : n \in -1..MaxBound},
     x \in {"plain", "existing_node", "is_reverse", "filter"}}

\* a graph has at most one edge or at least all but two of CandidateEdges
Graphs ==
  {g \in SUBSET EdgeIds : Cardinality(g) <= 1 \/ Cardinality(g) >= Len(CandidateEdges) - 2}

NewExpansionFrame(p) ==
  [a |-> Null, node |-> IF p.existing_node THEN 3 ELSE Null, edges |-> <<>>, w |-> 0]

InitExpansion ==
  /\ ex_graph \in Graphs
  /\ ex_plan \in ExpansionPlans
  /\ ex_plan.type = "BFS" => ~ex_plan.is_reverse
  /\ ex_plan.type = "WSP" => ex_plan.lower = NoExpr
  /\ ex_sources \in {<<Null, 1>>, <<2, 1>>}
  /\ ex_cursor = NewExpansionCursor(ex_plan)
  /\ ex_frame = NewExpansionFrame(ex_plan)
  /\ ex_ret = "None"
  /\ ex_rows = <<>>
  /\ ex_path = NoPathYet

\* the variables of the expansion in the specifications that do not run it
NoExpansion ==
  /\ ex_graph = {}
  /\ ex_plan = [type |-> "DFS", direction |-> "OUT", lower |-> NoExpr, upper |-> NoExpr,
                existing_node |-> FALSE, is_reverse |-> FALSE, avoid |-> Null]
  /\ ex_sources = <<>>
  /\ ex_cursor = NewExpandVariableCursor
  /\ ex_frame = NewExpansionFrame(ex_plan)
  /\ ex_ret = "None"
  /\ ex_rows = <<>>
  /\ ex_path = NoPathYet

\* the client pulls from the expansion until it is exhausted or raises
ExpansionClientPull ==
  /\ ex_ret \in {"None", "Row"}
  /\ \E r \in {ExpansionPull(ex_cursor, ex_frame)} :
        /\ ex_cursor' = r.c
        /\ ex_frame' = r.f
        /\ ex_ret' = r.ret
        /\ ex_rows' = IF r.ret = "Row" THEN Append(ex_rows, r.f) ELSE ex_rows
        /\ ex_path' = IF r.ret = "Row"
                        THEN [i \in DOMAIN NulledByOptional |->
                               ConstructNamedPath(PathElements(r.f, NulledByOptional[i]))]
                        ELSE NoPathYet
  /\ UNCHANGED <<ex_graph, ex_plan, ex_sources>>

\* ------------------------------------------- operators over input rows
\* One operator (Expand, Cartesian, Union, Skip, Limit, Accumulate or
\* CreateNode) over inputs that return given rows, pulled and
\* reset by its client.
VARIABLES
  op_plan,                       \* the operator and its parameters
  op_left,                       \* the rows of the input (of the left input)
  op_right,                      \* the rows of the right input
  op_cursor,                     \* the state of the cursor of the operator
  op_frame,                      \* the frame
  op_ret,                        \* result of the last Pull ("None" before it)
  op_rows,                       \* the frames returned as rows since the last Reset
  op_log,                        \* what the cursor did to its inputs and the database
  op_calls                       \* number of Pull and Reset calls made

op_vars == <<op_plan, op_left, op_right, op_cursor, op_frame, op_ret, op_rows,
             op_log, op_calls>>

\* std::experimental::optional
Nullopt == [has |-> FALSE]
Some(x) == [has |-> TRUE, v |-> x]

\* a frame with the symbols of row set to the values of row
WithRow(f, row) == [k \in DOMAIN f |-> IF k \in DOMAIN row THEN row[k] ELSE f[k]]

\* the cursor of an input operator: one row per Pull, then exhausted
NewRowsCursor == [it |-> 1]

RowsPull(c, f, rows) ==
  IF should_abort THEN [c |-> c, f |-> f, ret |-> "HintedAbortError"]
  ELSE IF c.it > Len(rows) THEN [c |-> c, f |-> f, ret |-> "Exhausted"]
  ELSE [c |-> [c EXCEPT !.it = @ + 1], f |-> WithRow(f, rows[c.it]), ret |-> "Row"]

RowsReset(c) == [c EXCEPT !.it = 1]

\* ---- Expand
\* edge.address().is_local()
IsLocal(e) == e \notin op_plan.remote

\* edge.is_cycle()
IsCycle(e) == From(e) = To(e)

\* vertex.in(existing_node, &edge_types) and vertex.out(existing_node, &edge_types)
InEdgesFrom(v, existing) == SelectSeq(InEdges(v), LAMBDA e : From(e) = existing)
OutEdgesTo(v, existing) == SelectSeq(OutEdges(v), LAMBDA e : To(e) = existing)

\* Expand::ExpandCursor::InitEdges. With existing_node and a Null node on the
\* frame the optional of the edges is not assigned: it keeps the edges of the
\* input row before, and the iterator is set to their begin. When the optional
\* is still empty, begin() is called on no object: ub is what that call does,
\* "benign" (an iterator nothing reads) or "crash".
RECURSIVE InitEdges(_, _, _)
InitEdges(c, f, ub) ==
  LET i == RowsPull(c.input, f, op_left)
      c1 == [c EXCEPT !.input = i.c]
      vertex == i.f.a
      existing == i.f.node
      takes_in == op_plan.direction \in {"IN", "BOTH"}
      takes_out == op_plan.direction \in {"OUT", "BOTH"}
      in_edges == IF ~takes_in THEN c.in_edges_
                  ELSE IF ~op_plan.existing_node THEN Some(InEdges(vertex))
                  ELSE IF existing # Null THEN Some(InEdgesFrom(vertex, existing))
                  ELSE c.in_edges_
      out_edges == IF ~takes_out THEN c.out_edges_
                   ELSE IF ~op_plan.existing_node THEN Some(OutEdges(vertex))
                   ELSE IF existing # Null THEN Some(OutEdgesTo(vertex, existing))
                   ELSE c.out_edges_
      undefined == (takes_in /\ ~in_edges.has) \/ (takes_out /\ ~out_edges.has)
      c2 == [c1 EXCEPT !.in_edges_ = in_edges,
                       !.in_edges_it_ = IF takes_in THEN 1 ELSE @,
                       !.out_edges_ = out_edges,
                       !.out_edges_it_ = IF takes_out THEN 1 ELSE @]
  IN IF i.ret # "Row" THEN [c |-> c1, f |-> i.f, ret |-> i.ret]
     ELSE IF vertex = Null THEN InitEdges(c1, i.f, ub)
     ELSE IF undefined /\ ub = "crash" THEN [c |-> c1, f |-> i.f, ret |-> "Crash"]
     ELSE [c |-> c2, f |-> i.f, ret |-> "Row"]

\* find_ready_future: the first future of the list that is ready
ReadyFutures(c, ready) == {i \in 1..Len(c.future_expands_) : c.future_expands_[i].edge \in ready}
FindReadyFuture(c, ready) ==
  CHOOSE i \in ReadyFutures(c, ready) : \A j \in ReadyFutures(c, ready) : i <= j

YieldFutureKept(c, i) ==
  LET future == c.future_expands_[i]
  IN [c |-> c,
      f |-> [future.frame_elems EXCEPT !.edge = future.edge, !.node = future.to],
      ret |-> "Row"]

\* put_future_edge_on_frame and the erase of the future
YieldFuture(c, i) ==
  LET future == c.future_expands_[i]
  IN [c |-> [c EXCEPT !.future_expands_ = RemoveAt(@, i)],
      f |-> [future.frame_elems EXCEPT !.edge = future.edge, !.node = future.to],
      ret |-> "Row"]

\* push_future_edge
PushFutureEdgeNoFrame(c, f, e, direction) ==
  [c EXCEPT !.future_expands_ =
     Append(@, [edge |-> e, to |-> IF direction = "IN" THEN From(e) ELSE To(e),
                frame_elems |-> [f EXCEPT !.id = 0, !.a = Null]])]

PushFutureEdge(c, f, e, direction) ==
  [c EXCEPT !.future_expands_ =
     Append(@, [edge |-> e, to |-> IF direction = "IN" THEN From(e) ELSE To(e),
                frame_elems |-> f])]

\* pull_node
PullNode(f, e, direction) ==
  IF op_plan.existing_node THEN f
  ELSE [f EXCEPT !.node = IF direction = "IN" THEN From(e) ELSE To(e)]

BothOrientations(direction, e) == FALSE

\* 600-601: in direction BOTH a cycle was expanded as an in-edge already
OneOrientation(direction, e) == direction = "BOTH" /\ IsCycle(e)

\* Expand::ExpandCursor::Pull. env.ready are the edges whose future is ready
\* during the call, env.late the edge whose future gets ready first when the
\* cursor sleeps, env.ub the outcome of the undefined call in InitEdges.
RECURSIVE ExpandCursorPull(_, _, _)
ExpandCursorPull(c, f, env) ==
  IF should_abort THEN [c |-> c, f |-> f, ret |-> "HintedAbortError"]
  ELSE IF ReadyFutures(c, env.ready) # {}
    THEN YieldFuture([c EXCEPT !.last_frame_ = IF @ = <<>> THEN <<f>> ELSE @],
                     FindReadyFuture(c, env.ready))
  ELSE
    LET f1 == IF c.last_frame_ # <<>> THEN c.last_frame_[1] ELSE f
        c1 == [c EXCEPT !.last_frame_ = <<>>]
    IN IF c1.in_edges_.has /\ c1.in_edges_it_ <= Len(c1.in_edges_.v)
         THEN LET edge == c1.in_edges_.v[c1.in_edges_it_]
                  c2 == [c1 EXCEPT !.in_edges_it_ = @ + 1]
              IN IF IsLocal(edge) \/ op_plan.existing_node
                   THEN [c |-> c2, f |-> PullNode([f1 EXCEPT !.edge = edge], edge, "IN"),
                         ret |-> "Row"]
                   ELSE ExpandCursorPull(PushFutureEdge(c2, f1, edge, "IN"), f1, env)
       ELSE IF c1.out_edges_.has /\ c1.out_edges_it_ <= Len(c1.out_edges_.v)
         THEN LET edge == c1.out_edges_.v[c1.out_edges_it_]
                  c2 == [c1 EXCEPT !.out_edges_it_ = @ + 1]
              IN IF OneOrientation(op_plan.direction, edge)
                   THEN ExpandCursorPull(c2, f1, env)
                 ELSE IF IsLocal(edge) \/ op_plan.existing_node
                   THEN [c |-> c2, f |-> PullNode([f1 EXCEPT !.edge = edge], edge, "OUT"),
                         ret |-> "Row"]
                   ELSE ExpandCursorPull(PushFutureEdge(c2, f1, edge, "OUT"), f1, env)
       ELSE LET ie == InitEdges(c1, f1, env.ub)
                late == IF \E i \in 1..Len(ie.c.future_expands_) :
                              ie.c.future_expands_[i].edge = env.late
                          THEN env.late ELSE ie.c.future_expands_[1].edge
            IN IF ie.ret = "Row" THEN ExpandCursorPull(ie.c, ie.f, env)
               ELSE IF ie.ret # "Exhausted" THEN ie
               ELSE IF ie.c.future_expands_ = <<>> THEN ie
               ELSE IF ReadyFutures(ie.c, env.ready) # {}
                 THEN YieldFuture(ie.c, FindReadyFuture(ie.c, env.ready))
               ELSE ExpandCursorPull(ie.c, ie.f,
                                     [env EXCEPT !.ready = @ \cup {late}])

NewExpandCursor ==
  [input |-> NewRowsCursor, in_edges_ |-> Nullopt, in_edges_it_ |-> 1,
   out_edges_ |-> Nullopt, out_edges_it_ |-> 1, future_expands_ |-> <<>>,
   last_frame_ |-> <<>>]

\* Expand::ExpandCursor::Reset
ExpandCursorReset(c) ==
  [c EXCEPT !.input = RowsReset(@), !.in_edges_ = Nullopt, !.in_edges_it_ = 1,
            !.out_edges_ = Nullopt, !.out_edges_it_ = 1, !.future_expands_ = <<>>,
            !.last_frame_ = <<>>]

\* ---- Cartesian
\* the symbols of the left and of the right operator
LeftSymbols == {"a"}
RightSymbols == {"b", "s"}

\* copy_frame moves every element of the frame into the copy. The frame keeps
\* what the move leaves behind: a vertex is unchanged, the list under s is
\* left empty when it is moved (moved) and unchanged when it is copied.
MovedFrom(f, moved) == IF moved THEN [f EXCEPT !.s = <<>>] ELSE f

CopiedFrom(f, moved) == f

\* restore_frame
RestoreFrame(f, symbols, from) ==
  [k \in DOMAIN f |-> IF k \in symbols THEN from[k] ELSE f[k]]

\* 3301-3305: pull all the frames of the left operator
RECURSIVE PullLeftFrames(_, _, _, _)
PullLeftFrames(c, f, env, log) ==
  LET l == RowsPull(c.left, f, op_left)
      c1 == [c EXCEPT !.left = l.c]
      log1 == Append(log, <<"left", l.ret>>)
  IN IF l.ret = "Row"
       THEN PullLeftFrames([c1 EXCEPT !.left_op_frames_ = Append(@, l.f)],
                           MovedFrom(l.f, env.moved), env, log1)
       ELSE [c |-> c1, f |-> l.f, ret |-> l.ret, log |-> log1]

\* CartesianCursor::Pull
CartesianCursorPull(c0, f0, env) ==
  LET init == IF c0.cartesian_pull_initialized_
                THEN [c |-> c0, f |-> f0, ret |-> "Exhausted", log |-> <<>>]
                ELSE PullLeftFrames(c0, f0, env, <<>>)
      c == IF c0.cartesian_pull_initialized_ THEN c0
           ELSE [init.c EXCEPT !.left_op_frames_it_ = Len(init.c.left_op_frames_) + 1,
                               !.cartesian_pull_initialized_ = TRUE]
      f == init.f
      r == RowsPull(c.right, f, op_right)
      at_end == c.left_op_frames_it_ > Len(c.left_op_frames_)
      c1 == IF at_end
              THEN [c EXCEPT !.right = r.c, !.right_op_frame_ = <<r.f>>,
                             !.left_op_frames_it_ = 1]
              ELSE c
      f1 == IF at_end THEN MovedFrom(r.f, env.moved)
                      ELSE RestoreFrame(f, RightSymbols, c.right_op_frame_[1])
      log == init.log \o (IF at_end THEN <<<<"right", r.ret>>>> ELSE <<>>)
  IN IF init.ret # "Exhausted" THEN [c |-> init.c, f |-> f, ret |-> init.ret,
                                     log |-> init.log]
     ELSE IF c.left_op_frames_ = <<>>
       THEN [c |-> c, f |-> f, ret |-> "Exhausted", log |-> init.log]
     ELSE IF at_end /\ r.ret # "Row"
       THEN [c |-> [c EXCEPT !.right = r.c], f |-> r.f, ret |-> r.ret, log |-> log]
     ELSE [c |-> [c1 EXCEPT !.left_op_frames_it_ = @ + 1],
           f |-> RestoreFrame(f1, LeftSymbols, c1.left_op_frames_[c1.left_op_frames_it_]),
           ret |-> "Row", log |-> log]

NewCartesianCursor ==
  [left |-> NewRowsCursor, right |-> NewRowsCursor, left_op_frames_ |-> <<>>,
   left_op_frames_it_ |-> 1, right_op_frame_ |-> <<>>,
   cartesian_pull_initialized_ |-> FALSE]

\* CartesianCursor::Reset
CartesianCursorReset(c) ==
  [c EXCEPT !.left = RowsReset(@), !.right = RowsReset(@), !.right_op_frame_ = <<>>,
            !.left_op_frames_ = <<>>, !.left_op_frames_it_ = 1,
            !.cartesian_pull_initialized_ = FALSE]

\* ---- Union
\* the symbols of the left operator, of the right operator and of the union,
\* and the name of every symbol
UnionLeftSymbols == {"a", "node"}
UnionRightSymbols == {"b", "edge"}
UnionSymbols == {"x", "y"}
SymbolName ==
  [a |-> "x", node |-> "y", b |-> "x", edge |-> "y", x |-> "x", y |-> "y"]

\* 2953-2955, 2958-2960: results[output_symbol.name()] = frame[output_symbol]
UnionResults(f, symbols) ==
  [n \in {SymbolName[k] : k \in symbols} |->
     f[CHOOSE k \in symbols : SymbolName[k] = n]]

\* 2966-2968: frame[symbol] = results[symbol.name()]
PutResults(f, results) ==
  [k \in DOMAIN f |-> IF k \in UnionSymbols THEN results[SymbolName[k]] ELSE f[k]]

\* the left operator of the union: the input rows themselves, or a scan
\* ScanAllByLabelPropertyRange(a) over them whose range for a row holds the
\* vertices under s of that row
UnionLeftPull(c, f) ==
  IF op_plan.left_scan
    THEN LET r == RowsPull(c.input, f, op_left)
         IN ScanAllCursorPull(c, f, r, r.f.s, "a", should_abort)
    ELSE RowsPull(c, f, op_left)

NewUnionLeftCursor(p) ==
  IF p.left_scan THEN NewScanAllCursor(NewRowsCursor) ELSE NewRowsCursor

\* what a pull of an input of the union returned, with the values of a row
Pulled(side, r, symbols) ==
  IF r.ret = "Row" THEN <<side, r.ret, UnionResults(r.f, symbols)>> ELSE <<side, r.ret>>

\* Union::UnionCursor::Pull
UnionCursorPull(c, f) ==
  LET l == UnionLeftPull(c.left, f)
      r == RowsPull(c.right, l.f, op_right)
      llog == <<Pulled("left", l, UnionLeftSymbols)>>
      rlog == <<Pulled("right", r, UnionRightSymbols)>>
  IN IF l.ret = "Row"
       THEN [c |-> [c EXCEPT !.left = l.c],
             f |-> PutResults(l.f, UnionResults(l.f, UnionLeftSymbols)),
             ret |-> "Row", log |-> llog]
     ELSE IF l.ret # "Exhausted"
       THEN [c |-> [c EXCEPT !.left = l.c], f |-> l.f, ret |-> l.ret, log |-> llog]
     ELSE IF r.ret = "Row"
       THEN [c |-> [c EXCEPT !.left = l.c, !.right = r.c],
             f |-> PutResults(r.f, UnionResults(r.f, UnionRightSymbols)),
             ret |-> "Row", log |-> llog \o rlog]
     ELSE [c |-> [c EXCEPT !.left = l.c, !.right = r.c], f |-> r.f, ret |-> r.ret,
           log |-> llog \o rlog]

NewUnionCursor(p) == [left |-> NewUnionLeftCursor(p), right |-> NewRowsCursor]

\* Union::UnionCursor::Reset
UnionCursorReset(c) ==
  [c EXCEPT !.left = IF op_plan.left_scan
                       THEN [@ EXCEPT !.input = RowsReset(@), !.has = FALSE,
                                      !.vertices_ = <<>>, !.it = 1]
                       ELSE RowsReset(@),
            !.right = RowsReset(@)]

\* ---- Skip and Limit
\* Skip::SkipCursor::Pull: the skip expression is evaluated inside the loop,
\* after a pull of the input that returned a row
RECURSIVE SkipCursorPull(_, _)
SkipCursorPull(c, f) ==
  LET r == RowsPull(c.input, f, op_left)
      c1 == [c EXCEPT !.input = r.c]
      evaluate == c.to_skip_ = -1
      to_skip == IF evaluate THEN op_plan.bound ELSE c.to_skip_
      log == IF evaluate THEN <<<<"Evaluate", to_skip>>>> ELSE <<>>
  IN IF r.ret # "Row"
       THEN [c |-> c1, f |-> r.f, ret |-> r.ret, log |-> <<>>]
     ELSE IF evaluate /\ to_skip < 0
       THEN [c |-> [c1 EXCEPT !.to_skip_ = to_skip], f |-> r.f,
             ret |-> "QueryRuntimeException", log |-> log]
     ELSE IF c.skipped_ < to_skip
       THEN LET n == SkipCursorPull([c1 EXCEPT !.to_skip_ = to_skip, !.skipped_ = @ + 1],
                                    r.f)
            IN [n EXCEPT !.log = log \o @]
     ELSE [c |-> [c1 EXCEPT !.to_skip_ = to_skip, !.skipped_ = @ + 1], f |-> r.f,
           ret |-> "Row", log |-> log]

NewSkipCursor == [input |-> NewRowsCursor, to_skip_ |-> -1, skipped_ |-> 0]

SkipCursorKeepsSkipped(c) == [c EXCEPT !.input = RowsReset(@), !.to_skip_ = -1]

\* Skip::SkipCursor::Reset
SkipCursorReset(c) == [c EXCEPT !.input = RowsReset(@), !.to_skip_ = -1, !.skipped_ = 0]

PulledPastLimit(pulled_, limit_) == pulled_ > limit_

\* 2461: pulled_++ >= limit_
PulledLimit(pulled_, limit_) == pulled_ >= limit_

\* Limit::LimitCursor::Pull: the limit expression is evaluated before the
\* input is pulled
LimitCursorPull(c, f) ==
  LET evaluate == c.limit_ = -1
      lim == IF evaluate THEN op_plan.bound ELSE c.limit_
      log == IF evaluate THEN <<<<"Evaluate", lim>>>> ELSE <<>>
      r == RowsPull(c.input, f, op_left)
  IN IF evaluate /\ lim < 0
       THEN [c |-> [c EXCEPT !.limit_ = lim], f |-> f,
             ret |-> "QueryRuntimeException", log |-> log]
     ELSE IF PulledLimit(c.pulled_, lim)
       THEN [c |-> [c EXCEPT !.limit_ = lim, !.pulled_ = @ + 1], f |-> f,
             ret |-> "Exhausted", log |-> log]
     ELSE [c |-> [c EXCEPT !.limit_ = lim, !.pulled_ = @ + 1, !.input = r.c],
           f |-> r.f, ret |-> r.ret, log |-> Append(log, <<"input", r.ret>>)]

NewLimitCursorOver(in) == [input |-> in, limit_ |-> -1, pulled_ |-> 0]

\* Limit::LimitCursor::Reset
LimitCursorReset(c) == [c EXCEPT !.input = RowsReset(@), !.limit_ = -1, !.pulled_ = 0]

\* ---- Accumulate
\* the symbols Accumulate caches
AccumulateSymbols == {"a"}

\* 2054-2060: while (input_cursor_->Pull(frame, context)) cache the row
RECURSIVE CacheInput(_, _, _)
CacheInput(c, f, log) ==
  LET r == RowsPull(c.input, f, op_left)
      c1 == [c EXCEPT !.input = r.c]
      log1 == Append(log, <<"input", r.ret>>)
  IN IF r.ret = "Row"
       THEN CacheInput([c1 EXCEPT !.cache_ = Append(@, [k \in AccumulateSymbols |-> r.f[k]])],
                       r.f, log1)
       ELSE [c |-> c1, f |-> r.f, ret |-> r.ret, log |-> log1]

AdvancesAlways(advance_command) == <<<<"AdvanceCommand">>>>

\* 2064-2068: if (self_.advance_command_) db_.AdvanceCommand()
Advances(advance_command) ==
  IF advance_command THEN <<<<"AdvanceCommand">>>> ELSE <<>>

\* 2071-2074: the row under cache_it_ is put on the frame
AccumulateYield(c, f, log) ==
  IF c.cache_it_ > Len(c.cache_)
    THEN [c |-> c, f |-> f, ret |-> "Exhausted", log |-> log]
    ELSE [c |-> [c EXCEPT !.cache_it_ = @ + 1],
          f |-> RestoreFrame(f, AccumulateSymbols, c.cache_[c.cache_it_]),
          ret |-> "Row", log |-> log]

\* Accumulate::AccumulateCursor::Pull
AccumulateCursorPull(c, f) ==
  IF ~c.pulled_all_input_
    THEN LET d == CacheInput(c, f, <<>>)
         IN IF d.ret # "Exhausted" THEN d
            ELSE AccumulateYield([d.c EXCEPT !.pulled_all_input_ = TRUE, !.cache_it_ = 1],
                                 d.f, d.log \o Advances(op_plan.advance_command))
    ELSE AccumulateYield(c, f, <<>>)

NewAccumulateCursor ==
  [input |-> NewRowsCursor, cache_ |-> <<>>, cache_it_ |-> 1, pulled_all_input_ |-> FALSE]

\* Accumulate::AccumulateCursor::Reset
AccumulateCursorReset(c) ==
  [c EXCEPT !.input = RowsReset(@), !.cache_ = <<>>, !.cache_it_ = 1,
            !.pulled_all_input_ = FALSE]

\* ---- CreateNode
\* the vertex the n-th insertion of the query creates on worker w
NewVertex(w, n) == 10 * (w + 1) + n

NeverLocal(worker_id, local) == FALSE

\* 128: worker_id == context.db_accessor_.db().WorkerId()
ChosenIsLocal(worker_id, local) == worker_id = local

\* 125-136: the worker of the new vertex; rand is the value of rand_(gen_)
CreateNodeEvent(rand) ==
  LET worker_id == GetWorkerIds[(rand % Len(GetWorkerIds)) + 1]
  IN IF ~op_plan.on_random_worker THEN <<"InsertVertex", op_plan.local>>
     ELSE IF ChosenIsLocal(worker_id, op_plan.local) THEN <<"InsertVertex", worker_id>>
     ELSE <<"InsertVertexIntoRemote", worker_id>>

\* CreateNode::CreateNodeCursor::Pull, with CreateLocally and CreateOnWorker
CreateNodeCursorPull(c, f, env) ==
  LET r == RowsPull(c.input, f, op_left)
      e == CreateNodeEvent(env.rand)
  IN IF r.ret = "Row"
       THEN [c |-> [c EXCEPT !.input = r.c],
             f |-> [r.f EXCEPT !.node = NewVertex(e[2], Len(op_log) + 1)],
             ret |-> "Row", log |-> <<e>>]
       ELSE [c |-> [c EXCEPT !.input = r.c], f |-> r.f, ret |-> r.ret, log |-> <<>>]

NewCreateNodeCursorOver(in) == [input |-> in]

\* CreateNode::CreateNodeCursor::Reset
CreateNodeCursorReset(c) == [c EXCEPT !.input = RowsReset(@)]

\* ---- Delete
\* the expressions of the Delete: the vertex under node, then the edge under
\* edge
DeleteExpressions == <<"node", "edge">>

\* the value of an expression of the Delete on the frame
ExpressionResult(f, sym) ==
  IF f[sym] = Null THEN NullValue
  ELSE IF sym = "edge" THEN EdgeValue(f[sym]) ELSE VertexValue(f[sym])

\* the edges of the database after the calls of the log: RemoveEdge removes
\* its edge, DetachRemoveVertex the edges of its vertex
DbEdges(log) ==
  {e \in op_plan.edges :
     \A i \in 1..Len(log) :
       /\ log[i] # <<"RemoveEdge", e>>
       /\ ~(log[i][1] = "DetachRemoveVertex" /\ log[i][2] \in {From(e), To(e)})}

\* GraphDbAccessor::RemoveVertex: false when the vertex has an edge left
RemoveVertex(v, log) == \A e \in DbEdges(log) : v \notin {From(e), To(e)}

NoResults(results) == <<>>

\* 1616-1618: the results of type Edge
EdgeResults(results) == SelectSeq(results, LAMBDA r : r[1] = "Edge")

\* 1621-1645: delete the vertices among the results, in order; Edges and
\* Nulls are skipped
RECURSIVE DeleteVertices(_, _)
DeleteVertices(results, log) ==
  IF results = <<>> THEN [ret |-> "Row", log |-> log]
  ELSE LET r == Head(results)
       IN IF r[1] # "Vertex" THEN DeleteVertices(Tail(results), log)
          ELSE IF op_plan.detach
            THEN DeleteVertices(Tail(results), Append(log, <<"DetachRemoveVertex", r[2]>>))
          ELSE IF RemoveVertex(r[2], log)
            THEN DeleteVertices(Tail(results), Append(log, <<"RemoveVertex", r[2]>>))
          ELSE [ret |-> "QueryRuntimeException",
                log |-> Append(log, <<"RemoveVertexFailed", r[2]>>)]

\* Delete::DeleteCursor::Pull
DeleteCursorPull(c, f) ==
  LET r == RowsPull(c.input, f, op_left)
      c1 == [c EXCEPT !.input = r.c]
      start == Append(op_log, <<"input", r.ret>>)
      expression_results ==
        [k \in 1..Len(DeleteExpressions) |-> ExpressionResult(r.f, DeleteExpressions[k])]
      evaluated ==
        start \o [k \in 1..Len(DeleteExpressions) |-> <<"Evaluate", DeleteExpressions[k]>>]
      edges == EdgeResults(expression_results)
      edges_removed == evaluated \o [k \in 1..Len(edges) |-> <<"RemoveEdge", edges[k][2]>>]
      d == DeleteVertices(expression_results, edges_removed)
  IN IF r.ret # "Row"
       THEN [c |-> c1, f |-> r.f, ret |-> r.ret, log |-> <<<<"input", r.ret>>>>]
       ELSE [c |-> c1, f |-> r.f, ret |-> d.ret,
             log |-> SubSeq(d.log, Len(op_log) + 1, Len(d.log))]

\* Delete::DeleteCursor::Reset
DeleteCursorReset(c) == [c EXCEPT !.input = RowsReset(@)]

\* ---- OrderBy
\* order_by_: the expressions x and y; output_symbols_: id, x and y
OrderByExpressions == <<"x", "y">>

OrderByOutputSymbols == <<"id", "x", "y">>

NullFirstCompare(a, b) ==
  IF b = Null THEN FALSE ELSE IF a = Null THEN TRUE ELSE a < b

\* OrderBy::TypedValueCompare, over Null and integers: Null is not less than
\* anything and every other value is less than Null
TypedValueCompare(a, b) ==
  IF a = Null THEN FALSE ELSE IF b = Null THEN TRUE ELSE a < b

\* OrderBy::TypedValueVectorCompare::operator()
RECURSIVE TypedValueVectorCompare(_, _, _)
TypedValueVectorCompare(ordering_, c1, c2) ==
  IF c1 = <<>> \/ c2 = <<>> THEN c1 = <<>> /\ c2 # <<>>
  ELSE IF TypedValueCompare(Head(c1), Head(c2)) THEN Head(ordering_) = "ASC"
  ELSE IF TypedValueCompare(Head(c2), Head(c1)) THEN Head(ordering_) = "DESC"
  ELSE TypedValueVectorCompare(Tail(ordering_), Tail(c1), Tail(c2))

\* 2531-2534: std::sort of cache_ under compare_; elements that compare
\* equivalent end in an order the library chooses, here the order of perm
StdSort(cache, perm) ==
  LET n == Len(cache)
      compare_(i, j) ==
        TypedValueVectorCompare(op_plan.ordering, cache[i].first, cache[j].first)
      Less(i, j) == \/ compare_(i, j)
                    \/ ~compare_(j, i) /\ perm[i] < perm[j]
      Place(i) == 1 + Cardinality({j \in 1..n : Less(j, i)})
  IN [k \in 1..n |-> cache[CHOOSE i \in 1..n : Place(i) = k]]

\* 2514-2529: the input is pulled until it returns false, the order_by and
\* output elements of every row appended to cache_
RECURSIVE OrderByCacheInput(_, _, _)
OrderByCacheInput(c, f, log) ==
  LET r == RowsPull(c.input, f, op_left)
      c1 == [c EXCEPT !.input = r.c]
      log1 == Append(log, <<"input", r.ret>>)
  IN IF r.ret = "Row"
       THEN OrderByCacheInput(
              [c1 EXCEPT !.cache_ =
                 Append(@, [first |-> [i \in 1..Len(OrderByExpressions) |->
                                         r.f[OrderByExpressions[i]]],
                            second |-> [i \in 1..Len(OrderByOutputSymbols) |->
                                          r.f[OrderByOutputSymbols[i]]]])],
              r.f, log1)
       ELSE [c |-> c1, f |-> r.f, ret |-> r.ret, log |-> log1]

\* 2540-2551: the output values under cache_it_ are placed on the frame
OrderByYield(c, f, log) ==
  IF c.cache_it_ > Len(c.cache_)
    THEN [c |-> c, f |-> f, ret |-> "Exhausted", log |-> log]
    ELSE [c |-> [c EXCEPT !.cache_it_ = @ + 1],
          f |-> [k \in DOMAIN f |->
                   IF \E i \in 1..Len(OrderByOutputSymbols) : OrderByOutputSymbols[i] = k
                     THEN c.cache_[c.cache_it_].second[
                            CHOOSE i \in 1..Len(OrderByOutputSymbols) :
                              OrderByOutputSymbols[i] = k]
                     ELSE f[k]],
          ret |-> "Row", log |-> log]

\* OrderBy::OrderByCursor::Pull
OrderByCursorPull(c, f, env) ==
  IF ~c.did_pull_all_
    THEN LET d == OrderByCacheInput(c, f, <<>>)
         IN IF d.ret # "Exhausted" THEN d
            ELSE OrderByYield([d.c EXCEPT !.cache_ = StdSort(@, env.perm),
                                          !.did_pull_all_ = TRUE, !.cache_it_ = 1],
                              d.f, d.log)
    ELSE OrderByYield(c, f, <<>>)

NewOrderByCursor ==
  [input |-> NewRowsCursor, cache_ |-> <<>>, cache_it_ |-> 1, did_pull_all_ |-> FALSE]

\* OrderBy::OrderByCursor::Reset
OrderByCursorReset(c) ==
  [c EXCEPT !.input = RowsReset(@), !.cache_ = <<>>, !.cache_it_ = 1,
            !.did_pull_all_ = FALSE]

\* ---- Distinct
\* value_symbols_: x and y
DistinctValueSymbols == <<"x", "y">>

\* TypedValue::BoolEqual over Null and integers: two Nulls are equal, Null
\* equals no other value
BoolEqual(a, b) ==
  IF a = Null /\ b = Null THEN TRUE
  ELSE IF a = Null \/ b = Null THEN FALSE
  ELSE a = b

FirstValueEqual(left, right) == BoolEqual(left[1], right[1])

\* TypedValueVectorEqual::operator()
TypedValueVectorEqual(left, right) ==
  \A i \in 1..Len(left) : BoolEqual(left[i], right[i])

\* a Distinct cursor over levels - 1 Distinct cursors over the input rows
RECURSIVE NewDistinctCursor(_)
NewDistinctCursor(levels) ==
  [input |-> IF levels = 1 THEN NewRowsCursor ELSE NewDistinctCursor(levels - 1),
   seen_rows_ |-> {}]

\* Distinct::DistinctCursor::Pull
RECURSIVE DistinctCursorPull(_, _, _)
DistinctCursorPull(c, f, levels) ==
  LET r == IF levels = 1 THEN RowsPull(c.input, f, op_left) @@ [log |-> <<>>]
           ELSE DistinctCursorPull(c.input, f, levels - 1)
      c1 == [c EXCEPT !.input = r.c]
      row == [i \in 1..Len(DistinctValueSymbols) |-> r.f[DistinctValueSymbols[i]]]
  IN IF r.ret # "Row" THEN [c |-> c1, f |-> r.f, ret |-> r.ret, log |-> <<>>]
     ELSE IF \A seen \in c.seen_rows_ : ~TypedValueVectorEqual(seen, row)
       THEN [c |-> [c1 EXCEPT !.seen_rows_ = @ \cup {row}], f |-> r.f,
             ret |-> "Row", log |-> <<>>]
       ELSE DistinctCursorPull(c1, r.f, levels)

\* Distinct::DistinctCursor::Reset
RECURSIVE DistinctCursorReset(_, _)
DistinctCursorReset(c, levels) ==
  [input |-> IF levels = 1 THEN RowsReset(c.input)
             ELSE DistinctCursorReset(c.input, levels - 1),
   seen_rows_ |-> {}]

\* ---- the operator under its client
\* what a call may meet: the futures that are ready, the one that gets ready
\* first, the outcome of an undefined call
Envs(p) ==
  IF p.top = "Expand"
    THEN {[ready |-> r, late |-> l, ub |-> u] :
            r \in SUBSET p.remote, l \in p.remote \cup {NoEdge}, u \in {"benign", "crash"}}
    ELSE IF p.top = "Cartesian"
      THEN {[moved |-> m] : m \in BOOLEAN}
    ELSE IF p.top = "CreateNode"
      THEN {[rand |-> n] : n \in 0..(2 * MaxWorker + 1)}
    ELSE IF p.top = "OrderBy"
      THEN {[perm |-> q] : q \in Permutations(1..MaxRows)}
    ELSE {[moved |-> FALSE]}

OperatorPull(c, f, env) ==
  CASE op_plan.top = "Expand" -> ExpandCursorPull(c, f, env) @@ [log |-> <<>>]
    [] op_plan.top = "Cartesian" -> CartesianCursorPull(c, f, env)
    [] op_plan.top = "Union" -> UnionCursorPull(c, f)
    [] op_plan.top = "Skip" -> SkipCursorPull(c, f)
    [] op_plan.top = "Delete" -> DeleteCursorPull(c, f)
    [] op_plan.top = "CreateNode" -> CreateNodeCursorPull(c, f, env)
    [] op_plan.top = "Accumulate" -> AccumulateCursorPull(c, f)
    [] op_plan.top = "Limit" -> LimitCursorPull(c, f)
    [] op_plan.top = "OrderBy" -> OrderByCursorPull(c, f, env)
    [] op_plan.top = "Distinct" -> DistinctCursorPull(c, f, op_plan.levels)

OperatorReset(c) ==
  CASE op_plan.top = "Expand" -> ExpandCursorReset(c)
    [] op_plan.top = "Cartesian" -> CartesianCursorReset(c)
    [] op_plan.top = "Union" -> UnionCursorReset(c)
    [] op_plan.top = "Skip" -> SkipCursorReset(c)
    [] op_plan.top = "Delete" -> DeleteCursorReset(c)
    [] op_plan.top = "CreateNode" -> CreateNodeCursorReset(c)
    [] op_plan.top = "Accumulate" -> AccumulateCursorReset(c)
    [] op_plan.top = "Limit" -> LimitCursorReset(c)
    [] op_plan.top = "OrderBy" -> OrderByCursorReset(c)
    [] op_plan.top = "Distinct" -> DistinctCursorReset(c, op_plan.levels)

NewOperatorCursor(p) ==
  CASE p.top = "Expand" -> NewExpandCursor
    [] p.top = "Cartesian" -> NewCartesianCursor
    [] p.top = "Union" -> NewUnionCursor(p)
    [] p.top = "Skip" -> NewSkipCursor
    [] p.top = "Delete" -> [input |-> NewRowsCursor]
    [] p.top = "CreateNode" -> NewCreateNodeCursorOver(NewRowsCursor)
    [] p.top = "Accumulate" -> NewAccumulateCursor
    [] p.top = "Limit" -> NewLimitCursorOver(NewRowsCursor)
    [] p.top = "OrderBy" -> NewOrderByCursor
    [] p.top = "Distinct" -> NewDistinctCursor(p.levels)

NewOperatorFrame ==
  [id |-> 0, a |-> Null, node |-> Null, edge |-> NoEdge, b |-> Null, s |-> <<>>,
   x |-> Null, y |-> Null]

\* the graphs of the operators: the edges 1->2, 2->3, 3->1 and the cycle 2->2
OperatorGraphs == SUBSET {1, 2, 6, 7}

\* the rows an input returns, numbered in id
RowsOver(values) ==
  UNION {{[i \in 1..n |-> [id |-> i] @@ rr[i]] : rr \in [1..n -> values]} : n \in 0..MaxRows}

ExpandPlans ==
  {p \in [top : {"Expand"}, direction : {"IN", "OUT", "BOTH"},
           existing_node : BOOLEAN, remote : {{}, {1}}] :
     p.existing_node => p.remote = {}}

CartesianPlans == {[top |-> "Cartesian"]}

UnionPlans == {[top |-> "Union", left_scan |-> l] : l \in BOOLEAN}

SkipLimitPlans == {[top |-> t, bound |-> n] : t \in {"Skip", "Limit"}, n \in -1..MaxLimit}

AccumulatePlans == {[top |-> "Accumulate", advance_command |-> ac] : ac \in BOOLEAN}

CreateNodePlans ==
  {[top |-> "CreateNode", on_random_worker |-> r, local |-> w] :
     r \in BOOLEAN, w \in Workers}

\* Delete on a database of the edges 1->2 and 2->3 or some of them
DeletePlans ==
  {[top |-> "Delete", detach |-> d, edges |-> g] : d \in BOOLEAN, g \in SUBSET {1, 2}}

\* OrderBy of the keys x and y, each ascending or descending
OrderByPlans ==
  {[top |-> "OrderBy", ordering |-> o] : o \in [1..2 -> {"ASC", "DESC"}]}

\* Distinct over the input, and Distinct over Distinct over the input
DistinctPlans == {[top |-> "Distinct", levels |-> n] : n \in {1, 2}}

OperatorPlans ==
  CartesianPlans \cup UnionPlans \cup SkipLimitPlans \cup AccumulatePlans
    \cup CreateNodePlans \cup DeletePlans \cup OrderByPlans \cup DistinctPlans

InputsOf(p) ==
  CASE p.top = "Expand" ->
         IF p.existing_node
           THEN RowsOver({[a |-> a, node |-> n] : a \in {1, 2}, n \in {Null, 2}})
           ELSE RowsOver({[a |-> a] : a \in {Null, 1, 2}})
    [] p.top = "Cartesian" -> RowsOver({[a |-> a] : a \in {1, 2}})
    [] p.top \in {"Skip", "Limit", "CreateNode"} -> RowsOver({[a |-> 1]})
    [] p.top = "Delete" ->
         RowsOver({[node |-> v, edge |-> e] : v \in {Null, 2}, e \in {NoEdge} \cup p.edges})
    [] p.top = "Accumulate" -> RowsOver({[a |-> 1, b |-> 1], [a |-> 2, b |-> 2]})
    [] p.top = "Distinct" ->
         RowsOver({[x |-> vx, y |-> vy] : vx \in {Null, 1}, vy \in {Null, 1}})
    [] p.top = "OrderBy" ->
         RowsOver({[x |-> vx, y |-> vy] : vx \in {Null, 1, 2}, vy \in {Null, 1}})
    [] p.top = "Union" ->
         IF p.left_scan
           THEN RowsOver({[node |-> 1, s |-> <<>>], [node |-> 2, s |-> <<1>>]})
           ELSE RowsOver({[a |-> 1, node |-> 2], [a |-> 2, node |-> 1]})

RightInputsOf(p) ==
  CASE p.top = "Cartesian" -> RowsOver({[b |-> 1, s |-> <<1>>], [b |-> 2, s |-> <<2>>]})
    [] p.top = "Union" -> RowsOver({[b |-> 1, edge |-> 2], [b |-> 2, edge |-> 1]})
    [] OTHER -> {<<>>}

InitOperator(plans) ==
  /\ op_plan \in plans
  /\ op_left \in InputsOf(op_plan)
  /\ op_right \in RightInputsOf(op_plan)
  /\ op_cursor = NewOperatorCursor(op_plan)
  /\ op_frame = NewOperatorFrame
  /\ op_ret = "None"
  /\ op_rows = <<>>
  /\ op_log = <<>>
  /\ op_calls = 0

\* the variables of the operator in the specifications that do not run it
NoOperator ==
  /\ op_plan = [top |-> "Expand", direction |-> "OUT", existing_node |-> FALSE,
                remote |-> {}]
  /\ op_left = <<>>
  /\ op_right = <<>>
  /\ op_cursor = NewExpandCursor
  /\ op_frame = NewOperatorFrame
  /\ op_ret = "None"
  /\ op_rows = <<>>
  /\ op_log = <<>>
  /\ op_calls = 0

Failures == Exceptions \cup {"Crash"}

\* the client pulls from the operator
OperatorClientPull ==
  /\ op_calls < MaxCalls
  /\ op_ret \notin Failures
  /\ \E env \in Envs(op_plan) :
       LET r == OperatorPull(op_cursor, op_frame, env)
       IN /\ op_cursor' = r.c
          /\ op_frame' = r.f
          /\ op_ret' = r.ret
          /\ op_rows' = IF r.ret = "Row" THEN Append(op_rows, r.f) ELSE op_rows
          /\ op_log' = op_log \o r.log
  /\ op_calls' = op_calls + 1
  /\ UNCHANGED <<op_plan, op_left, op_right, should_abort>>

\* the client resets the operator
OperatorClientReset ==
  /\ op_calls < MaxCalls
  /\ op_ret \notin Failures \cup {"None"}
  /\ op_cursor' = OperatorReset(op_cursor)
  /\ op_ret' = "None"
  /\ op_rows' = <<>>
  /\ op_log' = <<>>
  /\ op_calls' = op_calls + 1
  /\ UNCHANGED <<op_plan, op_left, op_right, op_frame, should_abort>>

\* ------------------------------------------- distributed logical plans
\* The DistributedLogicalPlan objects the interpreter makes, and the calls
\* they make on the plan dispatcher.
VARIABLES
  logical_plans,                 \* the objects made: their worker plan ids, destroyed or not
  dispatcher_calls               \* the calls made on the PlanDispatcher, in order

dlp_vars == <<logical_plans, dispatcher_calls>>

\* the plan ids given out so far; MakeDistributedPlan numbers the worker plans
\* of a query from next_plan_id_ on
UsedPlanIds ==
  UNION {{logical_plans[i].worker_plans[k] : k \in 1..Len(logical_plans[i].worker_plans)} :
           i \in 1..Len(logical_plans)}

\* 20-24: DispatchPlan for every pair of plan_.worker_plans
DispatchedAtConstruction(worker_plans) ==
  [k \in 1..Len(worker_plans) |-> <<"DispatchPlan", worker_plans[k]>>]

RemovedButFirst(worker_plans) ==
  [k \in 1..(Len(worker_plans) - 1) |-> <<"RemovePlan", worker_plans[k + 1]>>]

\* 28-31: RemovePlan for every pair of plan_.worker_plans
RemovedAtDestruction(worker_plans) ==
  [k \in 1..Len(worker_plans) |-> <<"RemovePlan", worker_plans[k]>>]

\* DistributedInterpreter::MakeLogicalPlan and the constructor of
\* DistributedLogicalPlan, for a query of n worker plans
MakeLogicalPlan ==
  /\ Len(logical_plans) < MaxPlans
  /\ \E n \in 0..MaxWorkerPlans :
       LET first == Cardinality(UsedPlanIds) + 1
           worker_plans == [k \in 1..n |-> first + k - 1]
       IN /\ logical_plans' = Append(logical_plans,
                                     [worker_plans |-> worker_plans, destroyed |-> FALSE])
          /\ dispatcher_calls' = dispatcher_calls \o DispatchedAtConstruction(worker_plans)

\* ~DistributedLogicalPlan
DestroyLogicalPlan(i) ==
  /\ i \in 1..Len(logical_plans)
  /\ ~logical_plans[i].destroyed
  /\ logical_plans' = [logical_plans EXCEPT ![i].destroyed = TRUE]
  /\ dispatcher_calls' =
       dispatcher_calls \o RemovedAtDestruction(logical_plans[i].worker_plans)

\* the variables of the plans in the specifications that make none
NoLogicalPlans ==
  /\ logical_plans = <<>>
  /\ dispatcher_calls = <<>>

\* ------------------------------------- master and workers as reactors
VARIABLES
  rx_master,                     \* Master: where Run and PerformCountNodes stand, and their locals
  rx_worker,                     \* every Worker: where Run and HandleCountNodes stand
  rx_streams,                    \* the messages waiting in every channel
  rx_log                         \* observation of the run (not program state)

rx_vars == <<rx_master, rx_worker, rx_streams, rx_log>>

\* the workers are 0..NUM_WORKERS - 1; the master is the reactor after them
WorkerIds == 0..(NUM_WORKERS - 1)
MasterId == NUM_WORKERS

\* the channel "main" of a reactor and its channel "txn" + xid
MainOf(reactor) == <<reactor, 0>>
TxnOf(reactor, xid) == <<reactor, xid>>
ChannelNames == (WorkerIds \cup {MasterId}) \X (0..MaxQueries)

\* nullptr
NoChannel == <<>>

\* a message: its class, the transaction id of a Txn (the count of a
\* CountNodesTxnResult), the worker_id and the sender of a request
Message(type, id, worker_id, sender) ==
  [type |-> type, id |-> id, worker_id |-> worker_id, sender |-> sender]

\* Channel::Send: the message joins the ones waiting in the channel
Send(streams, channel, m) == [streams EXCEPT ![channel] = Append(@, m)]

\* one message to the channel of every worker, in the order of the ids
RECURSIVE SendToWorkers(_, _, _, _)
SendToWorkers(streams, channelOf, m, w_id) ==
  IF w_id >= NUM_WORKERS THEN streams
  ELSE SendToWorkers(Send(streams, channelOf[w_id], m), channelOf, m, w_id + 1)

CommitLast(commit, type) == type = "CommitRequest"

\* 204 and 207: commit &= true for a CommitRequest, commit = false for an
\* AbortRequest
CommitAfter(commit, type) == commit /\ type = "CommitRequest"

\* 214-220: the directive for every worker
Directive(commit) == IF commit THEN "CommitDirective" ELSE "AbortDirective"

\* ClientMain: a line read from the input is sent to the master as a Query
ClientSendsQuery ==
  /\ rx_log.queries < MaxQueries
  /\ rx_streams' = Send(rx_streams, MainOf(MasterId),
                        Message("Query", 0, 0, NoChannel))
  /\ rx_log' = [rx_log EXCEPT !.queries = @ + 1]
  /\ UNCHANGED <<rx_master, rx_worker>>

\* Master::Run takes a Query "count nodes", the first in its loop and the
\* second in its callback, and Master::PerformCountNodes runs up to its
\* first AwaitEvent: the transaction is sent to every worker (188-196)
ProcessQuery ==
  /\ rx_master.pc \in {"run", "callback"}
  /\ rx_streams[MainOf(MasterId)] # <<>>
  /\ LET xid == rx_master.next_xid_
         popped == [rx_streams EXCEPT ![MainOf(MasterId)] = Tail(@)]
     IN /\ rx_streams' =
             SendToWorkers(popped, [w \in WorkerIds |-> MainOf(w)],
                           Message("CountNodesTxn", xid, 0, TxnOf(MasterId, xid)), 0)
        /\ rx_master' = [pc |-> "requests",
                         after |-> IF rx_master.pc = "run" THEN "callback" ELSE "done",
                         next_xid_ |-> xid + 1, xid |-> xid, responds |-> 0,
                         commit |-> TRUE,
                         txn_channels |-> [w \in WorkerIds |-> NoChannel],
                         count |-> 0]
  /\ UNCHANGED <<rx_worker, rx_log>>

\* 198-220: the master takes a request from its transaction channel; after
\* NUM_WORKERS of them it sends the directive to every channel it noted
AwaitRequest ==
  /\ rx_master.pc = "requests"
  /\ rx_streams[TxnOf(MasterId, rx_master.xid)] # <<>>
  /\ LET m == Head(rx_streams[TxnOf(MasterId, rx_master.xid)])
         popped == [rx_streams EXCEPT ![TxnOf(MasterId, rx_master.xid)] = Tail(@)]
         txn_channels == [rx_master.txn_channels EXCEPT ![m.worker_id] = m.sender]
         commit == CommitAfter(rx_master.commit, m.type)
         responds == rx_master.responds + 1
         noted == [rx_log EXCEPT !.requests = @ \cup {<<rx_master.xid, m.worker_id, m.type>>}]
         directives == {<<rx_master.xid, w, Directive(commit)>> : w \in WorkerIds}
     IN IF m.type \notin {"CommitRequest", "AbortRequest"}
          THEN /\ rx_master' = [rx_master EXCEPT !.pc = "exit"]
               /\ rx_streams' = popped
               /\ rx_log' = rx_log
        ELSE IF responds < NUM_WORKERS
          THEN /\ rx_master' = [rx_master EXCEPT !.txn_channels = txn_channels,
                                                 !.commit = commit, !.responds = responds]
               /\ rx_streams' = popped
               /\ rx_log' = noted
        ELSE IF \E w \in WorkerIds : txn_channels[w] = NoChannel
          THEN /\ rx_master' = [rx_master EXCEPT !.pc = "crash"]
               /\ rx_streams' = popped
               /\ rx_log' = noted
        ELSE /\ rx_master' = [rx_master EXCEPT !.pc = "results", !.txn_channels = txn_channels,
                                               !.commit = commit, !.responds = 0]
             /\ rx_streams' = SendToWorkers(popped, txn_channels,
                                            Message(Directive(commit), 0, 0, NoChannel), 0)
             /\ rx_log' = [noted EXCEPT !.sent = @ \cup directives,
                                        !.sent_twice = @ \/ directives \cap noted.sent # {}]
  /\ UNCHANGED rx_worker

\* 222-236: the master takes a result from its transaction channel; after
\* NUM_WORKERS of them the transaction is over
AwaitResult ==
  /\ rx_master.pc = "results"
  /\ rx_streams[TxnOf(MasterId, rx_master.xid)] # <<>>
  /\ LET m == Head(rx_streams[TxnOf(MasterId, rx_master.xid)])
         responds == rx_master.responds + 1
     IN rx_master' =
          IF m.type # "CountNodesTxnResult" THEN [rx_master EXCEPT !.pc = "exit"]
          ELSE [rx_master EXCEPT !.count = @ + m.id, !.responds = responds,
                                 !.pc = IF responds < NUM_WORKERS THEN @
                                        ELSE rx_master.after]
  /\ rx_streams' = [rx_streams EXCEPT ![TxnOf(MasterId, rx_master.xid)] = Tail(@)]
  /\ UNCHANGED <<rx_worker, rx_log>>

\* Worker::Run takes a transaction and Worker::HandleCountNodes runs up to
\* its AwaitEvent (318-327): the worker sends its request to the sender of
\* the transaction. HandleCountNodes sends a CommitRequest; the AbortRequest
\* is the answer of a worker that cannot commit.
HandleCountNodes(w) ==
  /\ rx_worker[w].pc = "run"
  /\ rx_streams[MainOf(w)] # <<>>
  /\ LET txn == Head(rx_streams[MainOf(w)])
         popped == [rx_streams EXCEPT ![MainOf(w)] = Tail(@)]
     IN /\ \E request \in {"CommitRequest", "AbortRequest"} :
             rx_streams' = Send(popped, txn.sender,
                                Message(request, 0, w, TxnOf(w, txn.id)))
        /\ rx_worker' = [rx_worker EXCEPT ![w] =
                           [pc |-> "directive", xid |-> txn.id, masterChannel |-> txn.sender]]
  /\ UNCHANGED <<rx_master, rx_log>>

\* 328-337: the worker takes the directive from its transaction channel and
\* answers a CommitDirective with its count
AwaitDirective(w) ==
  /\ rx_worker[w].pc = "directive"
  /\ rx_streams[TxnOf(w, rx_worker[w].xid)] # <<>>
  /\ LET m == Head(rx_streams[TxnOf(w, rx_worker[w].xid)])
         popped == [rx_streams EXCEPT ![TxnOf(w, rx_worker[w].xid)] = Tail(@)]
         received == <<rx_worker[w].xid, w, m.type>>
     IN /\ rx_streams' =
             IF m.type = "CommitDirective"
               THEN Send(popped, rx_worker[w].masterChannel,
                         Message("CountNodesTxnResult", 123, w, NoChannel))
               ELSE popped
        /\ rx_worker' = [rx_worker EXCEPT ![w].pc =
                           IF m.type \in {"CommitDirective", "AbortDirective"}
                             THEN "run" ELSE "exit"]
        /\ rx_log' = [rx_log EXCEPT
                        !.received = @ \cup {received},
                        !.received_twice =
                          @ \/ \E r \in rx_log.received : r[1] = received[1] /\ r[2] = w]
  /\ UNCHANGED rx_master

NewMaster ==
  [pc |-> "run", after |-> "callback", next_xid_ |-> 1, xid |-> 0, responds |-> 0,
   commit |-> TRUE, txn_channels |-> [w \in WorkerIds |-> NoChannel], count |-> 0]

NewWorker == [pc |-> "run", xid |-> 0, masterChannel |-> NoChannel]

\* main(): the master and the workers are spawned, nothing was sent
InitReactors ==
  /\ rx_master = NewMaster
  /\ rx_worker = [w \in WorkerIds |-> NewWorker]
  /\ rx_streams = [c \in ChannelNames |-> <<>>]
  /\ rx_log = [queries |-> 0, requests |-> {}, sent |-> {}, sent_twice |-> FALSE,
               received |-> {}, received_twice |-> FALSE]

\* ------------------------------------------------------- specifications
InitPR ==
  /\ should_abort = FALSE
  /\ InitPullRemote
  /\ \E present \in BOOLEAN :
       input_cursor_ = [present |-> present, c |-> NewScanAllCursor(NewOnceCursor)]
  /\ self_ = [advance_command |-> FALSE, pull_remote |-> FALSE]
  /\ InitSynchronize
  /\ NoPipeline
  /\ NoExpansion
  /\ NoOperator
  /\ NoLogicalPlans
  /\ InitReactors

NextPR ==
  \/ PullRemotePull /\ UNCHANGED <<sync_vars, cur_vars, ex_vars, op_vars, dlp_vars, rx_vars>>
  \/ PullRemoteWake /\ UNCHANGED <<sync_vars, cur_vars, ex_vars, op_vars, dlp_vars, rx_vars>>
  \/ \E w \in Workers : WorkerRespond(w) /\ UNCHANGED <<sync_vars, cur_vars, ex_vars, op_vars, dlp_vars, rx_vars>>
  \/ RequestAbort /\ UNCHANGED <<pr_vars, sync_vars, cur_vars, ex_vars, op_vars, dlp_vars, rx_vars>>

vars == <<should_abort, pr_vars, sync_vars, cur_vars, ex_vars, op_vars, dlp_vars, rx_vars>>

SpecPR == InitPR /\ [][NextPR]_vars

\* PullRemote with a client that keeps pulling, a sleep that ends and peers
\* that answer every RemotePull with frames and, in the end, CURSOR_EXHAUSTED
ClientPulls ==
  PullRemotePull /\ UNCHANGED <<sync_vars, cur_vars, ex_vars, op_vars, dlp_vars, rx_vars>>

SleepEnds ==
  PullRemoteWakeAgain /\ UNCHANGED <<sync_vars, cur_vars, ex_vars, op_vars, dlp_vars, rx_vars>>

PeerAnswers(w) ==
  WorkerRespondWith(w, {"CURSOR_IN_PROGRESS", "CURSOR_EXHAUSTED"}) /\ UNCHANGED <<sync_vars, cur_vars, ex_vars, op_vars, dlp_vars, rx_vars>>

NextPRFair ==
  \/ ClientPulls
  \/ SleepEnds
  \/ \E w \in Workers : PeerAnswers(w)

SpecPRFair ==
  /\ InitPR
  /\ [][NextPRFair]_vars
  /\ WF_vars(ClientPulls)
  /\ WF_vars(SleepEnds)
  /\ \A w \in Workers : WF_vars(PeerAnswers(w))

\* Synchronize over its input, with or without a pull_remote cursor; the
\* pull_remote of a Synchronize has no input of its own
InitSync ==
  /\ should_abort = FALSE
  /\ InitPullRemote
  /\ input_cursor_ = [present |-> FALSE, c |-> NewScanAllCursor(NewOnceCursor)]
  /\ \E adv \in BOOLEAN, pr \in BOOLEAN :
       self_ = [advance_command |-> adv, pull_remote |-> pr]
  /\ InitSynchronize
  /\ NoPipeline
  /\ NoExpansion
  /\ NoOperator
  /\ NoLogicalPlans
  /\ InitReactors

NextSync ==
  \/ SyncPull /\ UNCHANGED <<should_abort, pr_vars, cur_vars, ex_vars, op_vars, dlp_vars, rx_vars>>
  \/ SyncAwaitAccumulation /\ UNCHANGED <<should_abort, pr_vars, cur_vars, ex_vars, op_vars, dlp_vars, rx_vars>>
  \/ SyncApplyAll /\ UNCHANGED <<should_abort, pr_vars, cur_vars, ex_vars, op_vars, dlp_vars, rx_vars>>
  \/ SyncAwaitApply /\ UNCHANGED <<should_abort, pr_vars, cur_vars, ex_vars, op_vars, dlp_vars, rx_vars>>
  \/ SyncNotify /\ UNCHANGED <<should_abort, pr_vars, cur_vars, ex_vars, op_vars, dlp_vars, rx_vars>>
  \/ SyncAwaitNotify /\ UNCHANGED <<should_abort, pr_vars, cur_vars, ex_vars, op_vars, dlp_vars, rx_vars>>
  \/ SyncYieldLocal /\ UNCHANGED <<should_abort, pr_vars, cur_vars, ex_vars, op_vars, dlp_vars, rx_vars>>
  \/ SyncYieldNothing /\ UNCHANGED <<should_abort, pr_vars, cur_vars, ex_vars, op_vars, dlp_vars, rx_vars>>
  \/ SyncYieldRemote /\ UNCHANGED <<cur_vars, ex_vars, op_vars, dlp_vars, rx_vars>>
  \/ SyncRemoteWake /\ UNCHANGED <<cur_vars, ex_vars, op_vars, dlp_vars, rx_vars>>
  \/ \E i \in 1..MaxWorker : WorkerAccumulate(i) /\ UNCHANGED <<should_abort, pr_vars, cur_vars, ex_vars, op_vars, dlp_vars, rx_vars>>
  \/ \E i \in 1..MaxWorker : WorkerApply(i) /\ UNCHANGED <<should_abort, pr_vars, cur_vars, ex_vars, op_vars, dlp_vars, rx_vars>>
  \/ \E i \in 1..MaxWorker : WorkerCommandAdvanced(i) /\ UNCHANGED <<should_abort, pr_vars, cur_vars, ex_vars, op_vars, dlp_vars, rx_vars>>
  \/ \E w \in Workers : WorkerRespond(w) /\ UNCHANGED <<sync_vars, cur_vars, ex_vars, op_vars, dlp_vars, rx_vars>>
  \/ RequestAbortEarly /\ UNCHANGED <<pr_vars, sync_vars, cur_vars, ex_vars, op_vars, dlp_vars, rx_vars>>

SpecSync == InitSync /\ [][NextSync]_vars

\* the single-node pipeline, pulled and reset by its client
InitCur ==
  /\ should_abort = FALSE
  /\ InitPullRemote
  /\ input_cursor_ = [present |-> FALSE, c |-> NewScanAllCursor(NewOnceCursor)]
  /\ self_ = [advance_command |-> FALSE, pull_remote |-> FALSE]
  /\ InitSynchronize
  /\ InitPipeline
  /\ NoExpansion
  /\ NoOperator
  /\ NoLogicalPlans
  /\ InitReactors

NextCur ==
  \/ CursorPull /\ UNCHANGED <<pr_vars, sync_vars, ex_vars, op_vars, dlp_vars, rx_vars>>
  \/ CursorReset /\ UNCHANGED <<should_abort, pr_vars, sync_vars, ex_vars, op_vars, dlp_vars, rx_vars>>
  \/ RequestAbort /\ UNCHANGED <<pr_vars, sync_vars, cur_vars, ex_vars, op_vars, dlp_vars, rx_vars>>

SpecCur == InitCur /\ [][NextCur]_vars

\* a variable-length expansion, pulled by its client
InitExp ==
  /\ should_abort = FALSE
  /\ InitPullRemote
  /\ input_cursor_ = [present |-> FALSE, c |-> NewScanAllCursor(NewOnceCursor)]
  /\ self_ = [advance_command |-> FALSE, pull_remote |-> FALSE]
  /\ InitSynchronize
  /\ NoPipeline
  /\ InitExpansion
  /\ NoOperator
  /\ NoLogicalPlans
  /\ InitReactors

NextExp ==
  ExpansionClientPull /\ UNCHANGED <<should_abort, pr_vars, sync_vars, cur_vars, op_vars, dlp_vars, rx_vars>>

SpecExp == InitExp /\ [][NextExp]_vars

\* Expand over input rows, pulled and reset by its client
InitExpand ==
  /\ should_abort = FALSE
  /\ InitPullRemote
  /\ input_cursor_ = [present |-> FALSE, c |-> NewScanAllCursor(NewOnceCursor)]
  /\ self_ = [advance_command |-> FALSE, pull_remote |-> FALSE]
  /\ InitSynchronize
  /\ NoPipeline
  /\ ex_graph \in OperatorGraphs
  /\ ex_plan = [type |-> "DFS", direction |-> "OUT", lower |-> NoExpr, upper |-> NoExpr,
                existing_node |-> FALSE, is_reverse |-> FALSE, avoid |-> Null]
  /\ ex_sources = <<>>
  /\ ex_cursor = NewExpandVariableCursor
  /\ ex_frame = NewExpansionFrame(ex_plan)
  /\ ex_ret = "None"
  /\ ex_rows = <<>>
  /\ ex_path = NoPathYet
  /\ InitOperator(ExpandPlans)
  /\ NoLogicalPlans
  /\ InitReactors

NextExpand ==
  \/ OperatorClientPull /\ UNCHANGED <<pr_vars, sync_vars, cur_vars, ex_vars, dlp_vars, rx_vars>>
  \/ OperatorClientReset /\ UNCHANGED <<pr_vars, sync_vars, cur_vars, ex_vars, dlp_vars, rx_vars>>
  \/ RequestAbort /\ UNCHANGED <<pr_vars, sync_vars, cur_vars, ex_vars, op_vars, dlp_vars, rx_vars>>

SpecExpand == InitExpand /\ [][NextExpand]_vars

\* an operator of two inputs or one, pulled and reset by its client
InitOp ==
  /\ should_abort = FALSE
  /\ InitPullRemote
  /\ input_cursor_ = [present |-> FALSE, c |-> NewScanAllCursor(NewOnceCursor)]
  /\ self_ = [advance_command |-> FALSE, pull_remote |-> FALSE]
  /\ InitSynchronize
  /\ NoPipeline
  /\ NoExpansion
  /\ InitOperator(OperatorPlans)
  /\ NoLogicalPlans
  /\ InitReactors

NextOp ==
  \/ OperatorClientPull /\ UNCHANGED <<pr_vars, sync_vars, cur_vars, ex_vars, dlp_vars, rx_vars>>
  \/ OperatorClientReset /\ UNCHANGED <<pr_vars, sync_vars, cur_vars, ex_vars, dlp_vars, rx_vars>>
  \/ RequestAbort /\ UNCHANGED <<pr_vars, sync_vars, cur_vars, ex_vars, op_vars, dlp_vars, rx_vars>>

SpecOp == InitOp /\ [][NextOp]_vars

\* the distributed logical plans of the interpreter, made and destroyed
InitPlans ==
  /\ should_abort = FALSE
  /\ InitPullRemote
  /\ input_cursor_ = [present |-> FALSE, c |-> NewScanAllCursor(NewOnceCursor)]
  /\ self_ = [advance_command |-> FALSE, pull_remote |-> FALSE]
  /\ InitSynchronize
  /\ NoPipeline
  /\ NoExpansion
  /\ NoOperator
  /\ NoLogicalPlans
  /\ InitReactors

NextPlans ==
  \/ MakeLogicalPlan /\ UNCHANGED <<should_abort, pr_vars, sync_vars, cur_vars, ex_vars, op_vars, rx_vars>>
  \/ \E i \in 1..MaxPlans :
       DestroyLogicalPlan(i) /\ UNCHANGED <<should_abort, pr_vars, sync_vars, cur_vars, ex_vars, op_vars, rx_vars>>

SpecPlans == InitPlans /\ [][NextPlans]_vars

\* the master, the workers and the client of the reactor prototype
InitReactor ==
  /\ should_abort = FALSE
  /\ InitPullRemote
  /\ input_cursor_ = [present |-> FALSE, c |-> NewScanAllCursor(NewOnceCursor)]
  /\ self_ = [advance_command |-> FALSE, pull_remote |-> FALSE]
  /\ InitSynchronize
  /\ NoPipeline
  /\ NoExpansion
  /\ NoOperator
  /\ NoLogicalPlans
  /\ InitReactors

NextReactor ==
  \/ ClientSendsQuery /\ UNCHANGED <<should_abort, pr_vars, sync_vars, cur_vars, ex_vars, op_vars, dlp_vars>>
  \/ ProcessQuery /\ UNCHANGED <<should_abort, pr_vars, sync_vars, cur_vars, ex_vars, op_vars, dlp_vars>>
  \/ AwaitRequest /\ UNCHANGED <<should_abort, pr_vars, sync_vars, cur_vars, ex_vars, op_vars, dlp_vars>>
  \/ AwaitResult /\ UNCHANGED <<should_abort, pr_vars, sync_vars, cur_vars, ex_vars, op_vars, dlp_vars>>
  \/ \E w \in WorkerIds :
       HandleCountNodes(w) /\ UNCHANGED <<should_abort, pr_vars, sync_vars, cur_vars, ex_vars, op_vars, dlp_vars>>
  \/ \E w \in WorkerIds :
       AwaitDirective(w) /\ UNCHANGED <<should_abort, pr_vars, sync_vars, cur_vars, ex_vars, op_vars, dlp_vars>>

SpecReactor == InitReactor /\ [][NextReactor]_vars

\* ------------------------------------------ properties of the expansion

\* the bounds the operator states, with the defaults for a missing one
StatedLower == IF ex_plan.lower = NoExpr THEN 1 ELSE ex_plan.lower[1]
StatedUpper == IF ex_plan.upper = NoExpr THEN NoUpperBound ELSE ex_plan.upper[1]

\* the rows returned for the input row with source a
RowsOf(a) == SelectSeq(ex_rows, LAMBDA r : r.a = a)

\* C16: a row of the depth-first expansion has between lower and upper
\* edges; the stack of levels is never deeper than upper; with lower = 0 every
\* input row with a vertex gets exactly one row with the empty edge list, its
\* end node the source, unless the existing end node is another vertex.
C16_DepthFirstBounds ==
  ex_plan.type = "DFS" =>
    /\ ex_ret = "Row" =>
         /\ StatedLower <= Len(ex_frame.edges)
         /\ Len(ex_frame.edges) <= StatedUpper
    /\ ex_ret \in {"Row", "Exhausted"} => Len(ex_cursor.edges_) <= StatedUpper
    /\ (ex_ret = "Exhausted" /\ StatedLower = 0) =>
         \A k \in 1..Len(ex_sources) :
           ex_sources[k] # Null =>
             LET empty == SelectSeq(RowsOf(ex_sources[k]), LAMBDA r : r.edges = <<>>)
             IN IF ex_plan.existing_node /\ ex_sources[k] # 3
                  THEN empty = <<>>
                  ELSE /\ Len(empty) = 1
                       /\ empty[1].node = ex_sources[k]
                       /\ RowsOf(ex_sources[k])[1] = empty[1]

\* a depth-first expansion with bounds 0 and 2 is exhausted after rows with
\* no edge and rows with two edges
C16_Witness ==
  /\ ex_plan.type = "DFS" /\ ex_plan.lower = <<0>> /\ ex_plan.upper = <<2>>
  /\ ex_ret = "Exhausted"
  /\ \E i, j \in 1..Len(ex_rows) : ex_rows[i].edges = <<>> /\ Len(ex_rows[j].edges) = 2

\* C17. In every row that a variable-length expansion produces (depth-first,
\* breadth-first or weighted shortest path), no edge occurs twice in the edge
\* list.
C17_EdgeUniqueness ==
  ex_ret = "Row" =>
    \A i, j \in 1..Len(ex_frame.edges) :
      ex_frame.edges[i] = ex_frame.edges[j] => i = j

\* a depth-first row of two or more edges expanded in both directions: at
\* its second step the edge just walked was offered again and skipped
C17_Witness ==
  /\ ex_ret = "Row"
  /\ ex_plan.type = "DFS"
  /\ ex_plan.direction = "BOTH"
  /\ Len(ex_frame.edges) >= 2

\* the bounds the claim about empty results speaks of
BothNegative == StatedLower < 0 /\ StatedUpper < 0
UpperZeroLowerPositive == StatedUpper = 0 /\ StatedLower > 0

\* C18 as stated. A depth-first expansion whose bounds are both negative, or
\* whose upper bound is 0 while the lower bound is positive, produces no row
\* and no error.
C18_EmptyResult ==
  (ex_plan.type = "DFS" /\ (BothNegative \/ UpperZeroLowerPositive)) =>
    (ex_ret \in {"None", "Exhausted"} /\ ex_rows = <<>>)

\* C18 amended. A depth-first expansion with a negative bound raises
\* QueryRuntimeException at the first input row that has a vertex and
\* produces no row; with an upper bound of 0 and a positive lower bound it
\* produces no row and no error, and is exhausted only after it has walked
\* every input row.
C18_NegativeBoundRaises ==
  ex_plan.type = "DFS" =>
    /\ (StatedLower < 0 \/ StatedUpper < 0) =>
         (ex_ret \in {"None", "QueryRuntimeException"} /\ ex_rows = <<>>)
    /\ UpperZeroLowerPositive =>
         /\ ex_ret \in {"None", "Exhausted"}
         /\ ex_rows = <<>>
         /\ ex_ret = "Exhausted" => ex_cursor.input.it > Len(ex_sources)

\* both cases have happened for an input of two rows with a vertex each: the
\* expansion with negative bounds has raised, the one with upper bound 0 is
\* exhausted
C18_Witness ==
  /\ ex_plan.type = "DFS"
  /\ ex_sources = <<2, 1>>
  /\ \/ BothNegative /\ ex_ret = "QueryRuntimeException"
     \/ UpperZeroLowerPositive /\ ex_ret = "Exhausted"

\* the vertices one step from v in the direction of the plan that the filter
\* lets the expansion enter
StepsFrom(v) ==
  {To(e) : e \in {x \in ex_graph : ex_plan.direction # "IN" /\ From(x) = v}}
    \cup {From(e) : e \in {x \in ex_graph : ex_plan.direction # "OUT" /\ To(x) = v}}

Allowed(vs) == {v \in vs : v # ex_plan.avoid}

\* the least number of steps from the vertices of frontier, n steps from the
\* source, to target; -1 when there is no such walk
RECURSIVE MinSteps(_, _, _, _)
MinSteps(frontier, seen, target, n) ==
  IF target \in frontier THEN n
  ELSE IF frontier = {} THEN -1
  ELSE LET next == Allowed(UNION {StepsFrom(v) : v \in frontier}) \ seen
       IN MinSteps(next, seen \cup next, target, n + 1)

\* C19. A row of the breadth-first expansion has an edge list whose length
\* lies within the bounds and is the least number of steps from the source to
\* the row's end vertex, and no two rows of one input row end at the same
\* vertex.
C19_BreadthFirstShortest ==
  ex_plan.type = "BFS" =>
    /\ ex_ret = "Row" =>
         /\ Len(ex_frame.edges) >= StatedLower
         /\ Len(ex_frame.edges) <= StatedUpper
         /\ Len(ex_frame.edges) =
              MinSteps({ex_frame.a}, {ex_frame.a}, ex_frame.node, 0)
    /\ \A i, j \in 1..Len(ex_rows) :
         (ex_rows[i].a = ex_rows[j].a /\ ex_rows[i].node = ex_rows[j].node) => i = j

\* a breadth-first row of two steps under an upper bound of two, whose end
\* vertex has a further step to a vertex that is farther than two from the
\* source, after an earlier row
C19_Witness ==
  /\ ex_plan.type = "BFS"
  /\ ex_ret = "Row"
  /\ ex_plan.upper = <<2>>
  /\ Len(ex_frame.edges) = 2
  /\ \E v \in StepsFrom(ex_frame.node) :
       MinSteps({ex_frame.a}, {ex_frame.a}, v, 0) = 3
  /\ Len(ex_rows) >= 2

\* the edges that leave v in the direction of the plan, each with its far end
EdgesFrom(v) ==
  {<<e, To(e)>> : e \in {x \in ex_graph : ex_plan.direction # "IN" /\ From(x) = v}}
    \cup {<<e, From(e)>> : e \in {x \in ex_graph : ex_plan.direction # "OUT" /\ To(x) = v}}

\* the sum of the weights of a list of edges
RECURSIVE TotalWeight(_)
TotalWeight(edges) ==
  IF edges = <<>> THEN 0 ELSE Weight(Head(edges)) + TotalWeight(Tail(edges))

\* a weight above that of every simple path
NoPath == TotalWeight([e \in EdgeIds |-> e]) + 1

SetMin(S) == CHOOSE x \in S : \A y \in S : x <= y

\* the least total weight of a simple path of at most steps edges from v to
\* target that enters no vertex of visited and none the filter rejects
RECURSIVE MinWeight(_, _, _, _)
MinWeight(v, target, visited, steps) ==
  IF v = target THEN 0
  ELSE IF steps = 0 THEN NoPath
  ELSE SetMin({NoPath} \cup
         {Weight(p[1]) + MinWeight(p[2], target, visited \cup {p[2]}, steps - 1) :
            p \in {q \in EdgesFrom(v) : q[2] \notin visited /\ q[2] # ex_plan.avoid}})

\* C20 as stated, in the reading that asks least of the code. In a row of
\* the weighted shortest path expansion the edge list weighs total-weight,
\* and total-weight is the least weight of a simple path from the source to
\* the row's vertex among the paths that are no longer than the upper bound.
\* (The least weight over all simple paths is never larger.)
C20_WeightedShortest ==
  (ex_plan.type = "WSP" /\ ex_ret = "Row") =>
    /\ TotalWeight(ex_frame.edges) = ex_frame.w
    /\ ex_frame.w = MinWeight(ex_frame.a, ex_frame.node, {ex_frame.a},
                              Min(StatedUpper, Len(CandidateEdges)))

\* a weighted row whose vertex has a lighter path within the upper bound
C20_NotLightest ==
  /\ ex_plan.type = "WSP"
  /\ ex_ret = "Row"
  /\ ex_graph = {1, 2, 3, 4, 5}
  /\ ex_plan.direction = "OUT"
  /\ ex_plan.upper = <<2>>
  /\ ex_frame.a = 1
  /\ ex_frame.node = 4
  /\ ex_frame.w = 5
  /\ MinWeight(1, 4, {1}, 2) = 4

\* a path v0 e1 v1 ... en vn whose every edge connects the vertices around it
IsConnectedPath(path) ==
  /\ Len(path.vertices) = Len(path.edges) + 1
  /\ \A i \in 1..Len(path.edges) :
       {From(path.edges[i]), To(path.edges[i])}
         = {path.vertices[i], path.vertices[i + 1]}

\* C31: the named path written for a row is Null when a path element on the
\* frame is Null, and otherwise a path from the first node of the pattern in
\* which every edge, those of a variable-expansion edge list included,
\* connects the vertex before it and the vertex after it.
C31_NamedPathConnected ==
  ex_ret = "Row" =>
    \A i \in DOMAIN NulledByOptional :
      IF NulledByOptional[i] # {}
        THEN ex_path[i] = PathNull
        ELSE /\ ex_path[i] # PathNull
             /\ IsConnectedPath(ex_path[i])
             /\ ex_path[i].edges = ex_frame.edges
             /\ ex_path[i].vertices[1] =
                  (IF ex_plan.is_reverse THEN ex_frame.node ELSE ex_frame.a)

\* a named path of two edges was written for a row of an expansion planned
\* in reverse, and Null for the same row with its elements nulled
C31_Witness ==
  /\ ex_ret = "Row" /\ ex_plan.is_reverse
  /\ ex_path[1] # PathNull
  /\ Len(ex_path[1].edges) = 2
  /\ ex_path[2] = PathNull

\* ------------------------------------------- properties of the operators
\* C21 as stated. With existing-node set, Expand returns no row for an input
\* row whose node symbol is Null.
C21_NullExistingNode ==
  (op_plan.top = "Expand" /\ op_plan.existing_node) =>
    \A i \in 1..Len(op_rows) : op_rows[i].node # Null

\* the second input row holds a Null node and was returned with the edge of
\* the first input row
C21_StaleEdges ==
  /\ op_plan.top = "Expand"
  /\ op_plan.existing_node
  /\ Len(op_left) = 2
  /\ op_left[1].node # Null
  /\ op_left[2].node = Null
  /\ op_ret = "Row"
  /\ op_frame.id = 2
  /\ op_frame.node = Null
  /\ \E i \in 1..Len(op_rows) : op_rows[i].id = 1 /\ op_rows[i].edge = op_frame.edge

\* the cycle 2->2 of CandidateEdges
Loop == CHOOSE e \in UNION OperatorGraphs : From(e) = To(e)

\* the rows returned for input row k that hold edge e
RowsWith(k, e) == SelectSeq(op_rows, LAMBDA r : r.id = k /\ r.edge = e)

\* C22. Expand in direction BOTH returns a cycle edge of the vertex of an
\* input row at most once for that input row, and exactly once when the
\* cursor is exhausted and the row is one Expand expands (without
\* existing-node, or with the vertex itself as the existing node).
C22_CycleOnce ==
  (op_plan.top = "Expand" /\ op_plan.direction = "BOTH" /\ Loop \in ex_graph) =>
    \A k \in 1..Len(op_left) :
      op_left[k].a = From(Loop) =>
        /\ Len(RowsWith(k, Loop)) <= 1
        /\ (/\ op_ret = "Exhausted"
            /\ op_plan.existing_node => op_left[k].node = From(Loop))
           => Len(RowsWith(k, Loop)) = 1

\* Expand in direction BOTH is exhausted and has returned the cycle for an
\* input row of its vertex, along with another edge of that vertex
C22_Witness ==
  /\ op_plan.top = "Expand"
  /\ op_plan.direction = "BOTH"
  /\ ~op_plan.existing_node
  /\ Loop \in ex_graph
  /\ op_ret = "Exhausted"
  /\ \E k \in 1..Len(op_left) :
       /\ op_left[k].a = From(Loop)
       /\ Len(RowsWith(k, Loop)) = 1
       /\ \E i \in 1..Len(op_rows) : op_rows[i].id = k /\ op_rows[i].edge # Loop

\* the events of the log on one input
PullsOn(side) == SelectSeq(op_log, LAMBDA e : e[1] = side)

\* C23 as stated. Cartesian returns, for each right row in turn, one row per
\* left row: the n-th row holds the left symbols of its left row and the
\* right symbols of its right row as the right cursor returned them; it is
\* exhausted after |left| x |right| rows, and never pulls the right input
\* when the left input is empty.
C23_CartesianProduct ==
  op_plan.top = "Cartesian" =>
    /\ \A n \in 1..Len(op_rows) :
         LET ri == ((n - 1) \div Len(op_left)) + 1
             li == ((n - 1) % Len(op_left)) + 1
         IN /\ ri <= Len(op_right)
            /\ \A k \in LeftSymbols : op_rows[n][k] = op_left[li][k]
            /\ \A k \in RightSymbols : op_rows[n][k] = op_right[ri][k]
    /\ op_ret = "Exhausted" => Len(op_rows) = Len(op_left) * Len(op_right)
    /\ op_left = <<>> => PullsOn("right") = <<>>

\* the first row of Cartesian holds the vertex of the right row and an empty
\* list where the right row has a list of one element
C23_MovedRightValue ==
  /\ op_plan.top = "Cartesian"
  /\ op_ret = "Row"
  /\ Len(op_rows) = 1
  /\ op_frame.a = op_left[1].a
  /\ op_frame.b = op_right[1].b
  /\ op_right[1].s # <<>>
  /\ op_frame.s = <<>>

\* the rows the inputs of the union returned, in the order of the pulls
InputRows == SelectSeq(op_log, LAMBDA e : e[2] = "Row")

\* C24: the rows of Union are the rows its left input returned followed by
\* the rows its right input returned, each holding under every union symbol
\* the value of the symbol of that name of the input row; the right input is
\* not pulled before the left input was exhausted, and no row of the left
\* input comes after a row of the right input.
C24_UnionLeftThenRight ==
  op_plan.top = "Union" =>
    /\ Len(op_rows) = Len(InputRows)
    /\ \A i \in 1..Len(op_rows) :
         \A k \in UnionSymbols : op_rows[i][k] = InputRows[i][3][SymbolName[k]]
    /\ \A j \in 1..Len(op_log) :
         op_log[j][1] = "right" =>
           \E i \in 1..(j - 1) : op_log[i] = <<"left", "Exhausted">>
    /\ \A i, j \in 1..Len(InputRows) :
         (i < j /\ InputRows[i][1] = "right") => InputRows[j][1] = "right"

\* Union returned a row of its left input after a row of its right input
C24_LeftAfterRight ==
  /\ op_plan.top = "Union"
  /\ \E i, j \in 1..Len(InputRows) :
       i < j /\ InputRows[i][1] = "right" /\ InputRows[j][1] = "left"

\* the evaluations of the bound expression since the cursor was made or reset
Evaluations == SelectSeq(op_log, LAMBDA e : e[1] = "Evaluate")

\* C26 as stated. Once Skip or Limit was pulled, its bound expression was
\* evaluated exactly once since the cursor was made or last reset, and when
\* the bound is negative the Pull that evaluated it, the first one, failed
\* with the query error, whatever rows the input has.
C26_BoundOnFirstPull ==
  (op_plan.top \in {"Skip", "Limit"} /\ op_ret # "None" /\ ~should_abort) =>
    /\ Len(Evaluations) = 1
    /\ op_plan.bound < 0 => op_ret = "QueryRuntimeException"

\* Skip with a negative bound over an input without rows returned Exhausted
C26_NegativeSkipExhausted ==
  /\ op_plan.top = "Skip" /\ op_plan.bound < 0 /\ op_left = <<>>
  /\ op_ret = "Exhausted" /\ Evaluations = <<>>

\* the places of an event in the log of the operator
Places(e) == {i \in 1..Len(op_log) : op_log[i] = e}

\* C27: Accumulate returns a row only after a pull of its input returned
\* Exhausted; with advance-command the command is advanced exactly once,
\* after the last pull of the input and before the first row, and without it
\* never; the rows returned are the cached input rows in input order, one per
\* Pull, all of them when Accumulate is exhausted.
C27_AccumulateDrainsFirst ==
  (op_plan.top = "Accumulate" /\ op_ret \in {"Row", "Exhausted"}) =>
    /\ Cardinality(Places(<<"input", "Exhausted">>)) = 1
    /\ Cardinality(Places(<<"input", "Row">>)) = Len(op_left)
    /\ Cardinality(Places(<<"AdvanceCommand">>)) =
         IF op_plan.advance_command THEN 1 ELSE 0
    /\ \A i \in Places(<<"AdvanceCommand">>) : i = Len(op_log)
    /\ Len(op_rows) <= Len(op_left)
    /\ \A i \in 1..Len(op_rows) :
         \A k \in AccumulateSymbols : op_rows[i][k] = op_left[i][k]
    /\ op_ret = "Exhausted" => Len(op_rows) = Len(op_left)

\* Accumulate with advance-command returned both of its input rows and was
\* exhausted
C27_Witness ==
  /\ op_plan.top = "Accumulate" /\ op_plan.advance_command
  /\ Len(op_left) = 2 /\ Len(op_rows) = 2 /\ op_ret = "Exhausted"
  /\ op_log[Len(op_log)] = <<"AdvanceCommand">>

\* the results of up to n Pulls of the operator from cursor c on frame f: what
\* every Pull returned, the frame it left and what it did to its inputs
RECURSIVE PullSequence(_, _, _, _)
PullSequence(c, f, env, n) ==
  IF n = 0 THEN <<>>
  ELSE LET r == OperatorPull(c, f, env)
       IN <<[ret |-> r.ret, f |-> r.f, log |-> r.log]>>
          \o (IF r.ret \in Failures THEN <<>> ELSE PullSequence(r.c, r.f, env, n - 1))

C29_CreateNodePlacement ==
  op_plan.top = "CreateNode" =>
    /\ Len(op_log) = Len(op_rows)
    /\ \A i \in 1..Len(op_log) :
         /\ op_rows[i].node = NewVertex(op_log[i][2], i)
         /\ op_log[i][1] = "InsertVertexIntoRemote" => op_log[i][2] # op_plan.local
         /\ op_log[i][1] = "InsertVertex" => op_log[i][2] = op_plan.local
         /\ ~op_plan.on_random_worker => op_log[i][1] = "InsertVertex"
    /\ op_ret = "Exhausted" => Len(op_log) = Len(op_left)

\* CreateNode on a random worker created one vertex locally and one on
\* another worker, and was exhausted
C29_Witness ==
  /\ op_plan.top = "CreateNode" /\ op_plan.on_random_worker
  /\ op_ret = "Exhausted" /\ Len(op_log) = 2
  /\ op_log[1][1] = "InsertVertex" /\ op_log[2][1] = "InsertVertexIntoRemote"

\* the places of a call in the calls made on the plan dispatcher
CallsOf(call) == {j \in 1..Len(dispatcher_calls) : dispatcher_calls[j] = call}

\* C30: every worker plan of a DistributedLogicalPlan is dispatched exactly
\* once, when the object is made; it is removed exactly once, after its
\* dispatch, when the object has been destroyed and not while it lives; and
\* RemovePlan is never called for a plan id that was not dispatched.
C30_DispatchedThenRemoved ==
  /\ \A i \in 1..Len(logical_plans) :
       \A k \in 1..Len(logical_plans[i].worker_plans) :
         LET id == logical_plans[i].worker_plans[k]
         IN /\ Cardinality(CallsOf(<<"DispatchPlan", id>>)) = 1
            /\ Cardinality(CallsOf(<<"RemovePlan", id>>)) =
                 IF logical_plans[i].destroyed THEN 1 ELSE 0
            /\ \A d \in CallsOf(<<"DispatchPlan", id>>), r \in CallsOf(<<"RemovePlan", id>>) :
                 d < r
  /\ \A j \in 1..Len(dispatcher_calls) :
       dispatcher_calls[j][1] = "RemovePlan" =>
         \E d \in 1..(j - 1) : dispatcher_calls[d] = <<"DispatchPlan", dispatcher_calls[j][2]>>

\* a plan of two worker plans was made and destroyed while a later plan lives
C30_Witness ==
  /\ Len(logical_plans) >= 2
  /\ Len(logical_plans[1].worker_plans) = 2 /\ logical_plans[1].destroyed
  /\ Len(logical_plans[2].worker_plans) >= 1 /\ ~logical_plans[2].destroyed

\* the calls of the last Pull of the Delete: the log from its input pull on
LastInputPull == CHOOSE i \in 1..Len(op_log) :
                   op_log[i][1] = "input" /\ \A j \in (i + 1)..Len(op_log) : op_log[j][1] # "input"

CallsOfRow == SubSeq(op_log, LastInputPull + 1, Len(op_log))

\* C32: for a row, Delete evaluates every expression before it removes
\* anything and removes every edge result before any vertex result; a null
\* result removes nothing; without detach the Pull fails exactly when the
\* vertex to delete has an edge left in the database that is not the edge
\* deleted by the same row, and with detach it never fails.
C32_DeleteEdgesFirst ==
  (op_plan.top = "Delete" /\ op_ret \in {"Row", "QueryRuntimeException"}) =>
    LET calls == CallsOfRow
        before == SubSeq(op_log, 1, LastInputPull)
        rank(call) == CASE call[1] = "Evaluate" -> 1
                        [] call[1] = "RemoveEdge" -> 2
                        [] OTHER -> 3
        left == {e \in DbEdges(before) :
                   op_frame.node \in {From(e), To(e)} /\ e # op_frame.edge}
    IN /\ \A i, j \in 1..Len(calls) : i < j => rank(calls[i]) <= rank(calls[j])
       /\ Cardinality({i \in 1..Len(calls) : calls[i][1] = "Evaluate"}) = Len(DeleteExpressions)
       /\ (op_frame.edge # NoEdge) <=>
            (\E i \in 1..Len(calls) : calls[i] = <<"RemoveEdge", op_frame.edge>>)
       /\ (op_frame.node = Null) =>
            (\A i \in 1..Len(calls) : rank(calls[i]) < 3)
       /\ (op_frame.node # Null /\ ~op_plan.detach) =>
            IF left # {}
              THEN op_ret = "QueryRuntimeException"
              ELSE op_ret = "Row" /\ calls[Len(calls)] = <<"RemoveVertex", op_frame.node>>
       /\ op_plan.detach => op_ret = "Row"

\* without detach, a Delete failed on vertex 2 because the row deleted only
\* one of its two edges
C32_ConnectedVertex ==
  /\ op_plan.top = "Delete" /\ ~op_plan.detach /\ op_plan.edges = {1, 2}
  /\ op_ret = "QueryRuntimeException"
  /\ op_frame.edge = 1 /\ op_frame.node = 2

\* without detach, a row deleted vertex 2 together with its only edge, the
\* edge first
C32_Witness ==
  /\ op_plan.top = "Delete" /\ ~op_plan.detach /\ op_plan.edges = {1}
  /\ op_ret = "Row" /\ op_frame.edge = 1 /\ op_frame.node = 2
  /\ CallsOfRow[Len(CallsOfRow) - 1] = <<"RemoveEdge", 1>>
  /\ CallsOfRow[Len(CallsOfRow)] = <<"RemoveVertex", 2>>

\* ---- OrderBy
\* the values of the keys in a returned row
KeysOf(row) == [i \in 1..Len(OrderByExpressions) |-> row[OrderByExpressions[i]]]

\* the first key in which two rows differ, 0 when they differ in none
FirstDifference(r1, r2) ==
  IF KeysOf(r1) = KeysOf(r2) THEN 0
  ELSE CHOOSE k \in 1..Len(OrderByExpressions) :
         /\ r1[OrderByExpressions[k]] # r2[OrderByExpressions[k]]
         /\ \A i \in 1..(k - 1) : r1[OrderByExpressions[i]] = r2[OrderByExpressions[i]]

\* a before b under a key of the given ordering, Null after every value
NullLastBefore(o, a, b) ==
  IF a = Null THEN FALSE ELSE IF b = Null THEN TRUE
  ELSE IF o = "ASC" THEN a < b ELSE b < a

\* a before b under a key of the given ordering, Null the greatest value:
\* last when ascending, first when descending
NullGreatestBefore(o, a, b) ==
  IF o = "ASC"
    THEN IF a = Null THEN FALSE ELSE IF b = Null THEN TRUE ELSE a < b
    ELSE IF b = Null THEN FALSE ELSE IF a = Null THEN TRUE ELSE b < a

\* before a row is returned or the cursor is exhausted, every input row was
\* pulled and the input returned false
OrderByPulledAll ==
  op_ret \in {"Row", "Exhausted"} =>
    /\ Len(InputRows) = Len(op_left)
    /\ op_log[Len(op_log)] = <<"input", "Exhausted">>

\* an exhausted cursor returned every input row once
OrderByReturnedAll ==
  op_ret = "Exhausted" =>
    /\ Len(op_rows) = Len(op_left)
    /\ \A i \in 1..Len(op_left) : \E j \in 1..Len(op_rows) :
         /\ op_rows[j].id = i
         /\ KeysOf(op_rows[j]) = KeysOf(op_left[i])

Projection(row) == [i \in 1..Len(DistinctValueSymbols) |-> row[DistinctValueSymbols[i]]]

\* the input rows that are the first to carry their projection, in input order
FirstOccurrences ==
  SelectSeq(op_left, LAMBDA r :
    \A j \in 1..(r.id - 1) : Projection(op_left[j]) # Projection(r))

\* C34: Distinct returns, in input order, the first input row of every
\* distinct projection of its value symbols and no other row, two Nulls
\* being equal; Distinct over Distinct returns the same rows
C34_DistinctOnce ==
  op_plan.top = "Distinct" =>
    /\ Len(op_rows) <= Len(FirstOccurrences)
    /\ \A i \in 1..Len(op_rows) :
         /\ op_rows[i].id = FirstOccurrences[i].id
         /\ Projection(op_rows[i]) = Projection(FirstOccurrences[i])
    /\ op_ret = "Exhausted" => Len(op_rows) = Len(FirstOccurrences)

\* Distinct over Distinct is exhausted after returning one row for two input
\* rows of the projection (Null, 1)
C34_Witness ==
  /\ op_plan.top = "Distinct" /\ op_plan.levels = 2
  /\ op_ret = "Exhausted"
  /\ Len(op_left) = 2 /\ Len(op_rows) = 1
  /\ Projection(op_rows[1]) = <<Null, 1>>

\* ---- the frames of Expand
\* the row came from the task of a remote endpoint
FromTask(r) == r.edge \in op_plan.remote

\* the row holds its input row untouched, an edge of the vertex of that
\* input row in the direction of the plan, and the other endpoint
CarriesInputRow(r) ==
  /\ r.id \in 1..Len(op_left)
  /\ r.a = op_left[r.id].a
  /\ \A k \in {"b", "s", "x", "y"} : r[k] = NewOperatorFrame[k]
  /\ r.edge \in ex_graph
  /\ \/ /\ op_plan.direction \in {"OUT", "BOTH"}
        /\ From(r.edge) = r.a /\ r.node = To(r.edge)
     \/ /\ op_plan.direction \in {"IN", "BOTH"}
        /\ To(r.edge) = r.a /\ r.node = From(r.edge)

\* C35: a row of Expand from the task of a remote endpoint carries the frame
\* of the input row at which its edge was met, with the edge and the resolved
\* vertex; a row from a local edge carries the frame of the current input
\* row, also after rows from tasks were put on the frame in between
C35_TaskFramesRestored ==
  (op_plan.top = "Expand" /\ ~op_plan.existing_node) =>
    /\ \A k \in 1..Len(op_rows) : CarriesInputRow(op_rows[k])
    /\ (op_ret = "Row" /\ ~FromTask(op_frame)) => op_frame.id = op_cursor.input.it - 1

\* two tasks got ready between two Pulls: a row from a local edge of input
\* row 2, a row from the task of input row 1, a row from a task of input
\* row 2, and a row from another local edge of input row 2
C35_Witness ==
  /\ op_plan.top = "Expand" /\ ~op_plan.existing_node
  /\ op_ret = "Row"
  /\ Len(op_rows) >= 4
  /\ LET n == Len(op_rows)
     IN /\ ~FromTask(op_rows[n - 3]) /\ op_rows[n - 3].id = 2
        /\ FromTask(op_rows[n - 2]) /\ op_rows[n - 2].id = 1
        /\ FromTask(op_rows[n - 1]) /\ op_rows[n - 1].id = 2
        /\ ~FromTask(op_rows[n]) /\ op_rows[n].id = 2
        /\ op_cursor.last_frame_ = <<>>

\* ---- the rows of Expand
\* the edges of vertex v in the direction of the plan, each with its other
\* endpoint; a cycle is there once
IncidentEdges(v) ==
  {<<e, To(e)>> : e \in {g \in ex_graph : op_plan.direction \in {"OUT", "BOTH"}
                                          /\ From(g) = v}}
    \cup {<<e, From(e)>> : e \in {g \in ex_graph : op_plan.direction \in {"IN", "BOTH"}
                                                   /\ To(g) = v}}

\* the rows returned for input row k with edge e and vertex n
RowsOfEdge(k, e, n) ==
  SelectSeq(op_rows, LAMBDA r : r.id = k /\ r.edge = e /\ r.node = n)

\* C38: Expand without existing-node returns, for every input row, one row
\* per edge of the row's vertex in the direction of the plan, a cycle once,
\* the endpoint local or resolved by a task, and no other row; none for a
\* Null vertex; it is exhausted only when every such row was returned and no
\* task is left
C38_OneRowPerEdge ==
  (op_plan.top = "Expand" /\ ~op_plan.existing_node) =>
    /\ \A i \in 1..Len(op_rows) :
         /\ op_rows[i].id \in 1..Len(op_left)
         /\ <<op_rows[i].edge, op_rows[i].node>>
              \in IncidentEdges(op_left[op_rows[i].id].a)
    /\ \A k \in 1..Len(op_left) : \A en \in IncidentEdges(op_left[k].a) :
         /\ Len(RowsOfEdge(k, en[1], en[2])) <= 1
         /\ op_ret = "Exhausted" => Len(RowsOfEdge(k, en[1], en[2])) = 1
    /\ op_ret = "Exhausted" => op_cursor.future_expands_ = <<>>

\* Expand in direction BOTH is exhausted after the rows of vertex 2 for its
\* two local edges and, last, the row of the task of its remote edge
C38_Witness ==
  /\ op_plan.top = "Expand" /\ ~op_plan.existing_node
  /\ op_plan.direction = "BOTH" /\ op_plan.remote = {1}
  /\ ex_graph = {1, 2, 7}
  /\ op_ret = "Exhausted"
  /\ Len(op_left) = 1 /\ op_left[1].a = 2
  /\ Len(op_rows) = 3
  /\ FromTask(op_rows[3])

\* ---- Limit
\* the pulls of the input since the cursor was made or last reset
InputPulls == SelectSeq(op_log, LAMBDA e : e[1] = "input")

\* C39: since it was made or last reset, Limit with the bound n returned at
\* most n rows and pulled its input at most n times; with n = 0, and with a
\* negative n, it did not pull its input
C39_LimitPullsAtMost ==
  op_plan.top = "Limit" =>
    /\ Len(InputPulls) <= IF op_plan.bound < 0 THEN 0 ELSE op_plan.bound
    /\ Len(op_rows) <= Len(InputPulls)

\* Limit 1 over an input of two rows was pulled three times: it returned one
\* row and pulled its input once
C39_Witness ==
  /\ op_plan.top = "Limit" /\ op_plan.bound = 1
  /\ Len(op_left) = 2
  /\ op_cursor.pulled_ >= 3
  /\ Len(op_rows) = 1 /\ Len(InputPulls) = 1

\* Limit 0 was pulled and left its input alone
C39_LimitZero ==
  /\ op_plan.top = "Limit" /\ op_plan.bound = 0
  /\ Len(op_left) = 2
  /\ op_ret = "Exhausted" /\ op_cursor.input.it = 1 /\ InputPulls = <<>>

\* -------------------------------------------- properties of the reactors
\* the requests of transaction xid the master has taken
RequestsOf(xid) == {r \in rx_log.requests : r[1] = xid}

\* C40: the master sends the directives of a count-nodes transaction when it
\* has taken a CommitRequest or an AbortRequest of every worker, to every
\* worker at once; they are CommitDirective when every request was a
\* CommitRequest and AbortDirective otherwise; no directive is sent twice, a
\* worker takes one directive per transaction, the one sent, and no two
\* workers take different directives of one transaction
C40_OneDirectiveForAll ==
  /\ \A d \in rx_log.sent :
       /\ \A w \in WorkerIds : \E r \in RequestsOf(d[1]) : r[2] = w
       /\ d[3] = IF \A r \in RequestsOf(d[1]) : r[3] = "CommitRequest"
                   THEN "CommitDirective" ELSE "AbortDirective"
       /\ \A w \in WorkerIds : <<d[1], w, d[3]>> \in rx_log.sent
  /\ \A d1, d2 \in rx_log.sent : d1[1] = d2[1] => d1[3] = d2[3]
  /\ ~rx_log.sent_twice
  /\ ~rx_log.received_twice
  /\ rx_log.received \subseteq rx_log.sent
  /\ rx_master.pc \notin {"exit", "crash"}
  /\ \A w \in WorkerIds : rx_worker[w].pc # "exit"

\* every worker took the CommitDirective of transaction 1 and the
\* AbortDirective of transaction 2, for which worker 0 sent a CommitRequest
\* and worker 1 an AbortRequest
C40_Witness ==
  /\ \A w \in WorkerIds :
       {<<1, w, "CommitDirective">>, <<2, w, "AbortDirective">>} \subseteq rx_log.received
  /\ <<2, 0, "CommitRequest">> \in rx_log.requests
  /\ <<2, 1, "AbortRequest">> \in rx_log.requests

\* ------------------------------------------------ properties of PullRemote

\* C3: the first RemotePull goes once to every peer and never to the master;
\* a further RemotePull goes to a worker only after an answer of that worker
\* was taken with CURSOR_IN_PROGRESS; a worker has at most one request
\* outstanding and gets none after it answered CURSOR_EXHAUSTED.
C3_PullStateMachine ==
  /\ h.sent[0] = 0
  /\ \A w \in Peers :
       /\ h.sent[w] = (IF remote_pulls_initialized_ THEN 1 ELSE 0) + h.inprog[w]
       /\ worker[w].inflight <= 1
       /\ worker[w].done =>
            worker[w].inflight = 0 /\ (remote_pulls_[w].valid => remote_pulls_[w].ready)
  /\ ~h.late_send

\* a worker was asked again after CURSOR_IN_PROGRESS and then answered
\* CURSOR_EXHAUSTED, and that answer was taken
C3_Witness ==
  \E w \in Peers : h.sent[w] = 2 /\ worker[w].done /\ ~remote_pulls_[w].valid

\* C4: a Pull that runs while should_abort() is true raises the abort error:
\* it returns no row, does not return Exhausted and does not go on waiting.
C4_AbortHonoured ==
  h.abort_at_iter => pr_pc = "idle" /\ pr_ret \notin {"Row", "Exhausted"}

\* the error kind the spec's taxonomy names for a remote error state
ClaimedError(st) ==
  CASE st = "SERIALIZATION_ERROR" -> "SerializationError"
    [] st = "LOCK_TIMEOUT_ERROR" -> "LockTimeoutException"
    [] st = "UPDATE_DELETED_ERROR" -> "RecordDeletedError"
    [] st = "RECONSTRUCTION_ERROR" -> "ReconstructionException"
    [] st = "QUERY_ERROR" -> "QueryRuntimeException"

C9_RoundRobin ==
  h.served # 0 =>
    LET n == Len(h.ids_at)
        at(i) == h.ids_at[((h.idx_before + i) % n) + 1]
        first == CHOOSE i \in 1..n :
                   /\ at(i) \in h.avail
                   /\ \A j \in 1..(i - 1) : at(j) \notin h.avail
    IN /\ h.served = at(first)
       /\ h.prev_served = h.served => h.avail = {h.served}

\* two servings in a row, the second chosen among two workers with frames
C9_Witness ==
  h.prev_served # 0 /\ h.served # h.prev_served /\ Cardinality(h.avail) >= 2

\* C10 as stated: a Pull attempts the local input at most once.
C10_OneLocalPullPerCall == h.local_attempts <= 1

\* C10 as amended: in every iteration of the poll loop that finds no buffered
\* remote frame while a remote pull is outstanding, the input (when there is
\* one) is pulled exactly once and a row it produces is returned at once; the
\* cursor sleeps only when neither a remote frame nor a local row is there; a
\* buffered remote frame is returned without pulling the input.
C10_Interleaving ==
  ~h.it.threw =>
    /\ (~h.it.buffered /\ h.it.inflight /\ input_cursor_.present) =>
         /\ h.it.attempts = 1
         /\ h.it.local_row => pr_pc = "idle" /\ pr_ret = "Row" /\ pr_row[1] = 0
    /\ h.it.slept => ~h.it.buffered /\ ~h.it.local_row /\ pr_pc = "loop"
    /\ h.it.buffered =>
         h.it.attempts = 0 /\ pr_pc = "idle" /\ pr_ret = "Row" /\ pr_row[1] # 0

\* a Pull that slept and, awake again with nothing buffered, pulled the
\* exhausted input a second time
C10_Witness ==
  h.local_attempts = 2 /\ h.it.slept /\ h.it.inflight /\ ~h.it.buffered

\* ---- no row lost, none returned twice
\* the frames the peers put in their responses so far
ResponseFrames == UNION {SeqRange(FramesOf(w, 0, worker[w].produced)) : w \in Workers}

\* the rows of the local input
LocalRows == IF input_cursor_.present THEN SeqRange(LocalVertices) ELSE {}

\* the frames of the responses that PullRemote holds: buffered, or in a
\* future it has not taken yet
HeldFrames ==
  UNION {SeqRange(remote_results_[w]) \cup
           (IF IsFutureReady(remote_pulls_[w]) THEN SeqRange(remote_pulls_[w].frames)
            ELSE {}) : w \in Workers}

\* C36: as long as PullRemote has not thrown, no row is returned by two
\* Pulls, every returned row is a frame of a response or a local row, every
\* frame of a response is returned or still held; Pull returns Exhausted only
\* when every worker answered CURSOR_EXHAUSTED, every frame of every response
\* and every local row was returned and the local input is exhausted
C36_EveryRowOnce ==
  pr_ret \notin Exceptions =>
    /\ ~h.twice
    /\ h.returned \subseteq ResponseFrames \cup LocalRows
    /\ ResponseFrames \subseteq h.returned \cup HeldFrames
    /\ h.returned \cap HeldFrames = {}
    /\ pr_ret = "Exhausted" =>
         /\ \A w \in SeqRange(MasterRemoved(GetWorkerIds)) : worker[w].done
         /\ HeldFrames = {}
         /\ h.returned = ResponseFrames \cup LocalRows
         /\ input_cursor_.present =>
              /\ input_cursor_.c.has
              /\ input_cursor_.c.it > Len(input_cursor_.c.vertices_)

\* PullRemote is exhausted after returning the frames of two responses of
\* one worker, a frame of the other and the local rows
C36_Witness ==
  /\ pr_ret = "Exhausted"
  /\ input_cursor_.present
  /\ \E w \in Workers : h.inprog[w] >= 1 /\ worker[w].produced >= 2
  /\ \A w \in SeqRange(MasterRemoved(GetWorkerIds)) : worker[w].produced >= 1
  /\ Cardinality(h.returned) >= 3 + MaxLocal

\* ---- termination of PullRemote
\* C37: with peers that answer every RemotePull and in the end report
\* CURSOR_EXHAUSTED, a sleep that ends and a client that keeps pulling, every
\* Pull returns, the cursor returns Exhausted, and no RemotePull is sent to a
\* worker that answered CURSOR_EXHAUSTED
C37_PullRemoteTerminates ==
  /\ (pr_pc = "loop") ~> (pr_pc = "idle")
  /\ <>(pr_ret = "Exhausted")
  /\ [](~h.late_send)

\* the cursor is exhausted after a Pull that slept more than once waiting
\* for the peers, every peer having answered CURSOR_IN_PROGRESS before
C37_Witness ==
  /\ pr_ret = "Exhausted"
  /\ h.spins >= MaxSpin
  /\ \A w \in SeqRange(MasterRemoved(GetWorkerIds)) : h.inprog[w] >= 1 /\ worker[w].done

\* ----------------------------------------------- properties of Synchronize

IsPrefix(s, t) == Len(s) <= Len(t) /\ \A i \in 1..Len(s) : s[i] = t[i]

\* the order of the steps of InitialPull that C5 states
StatedSteps ==
  (IF self_.pull_remote THEN <<"accumulate_sent">> ELSE <<>>)
  \o <<"drained", "accumulations_awaited">>
  \o (IF self_.advance_command THEN <<"command_advanced">> ELSE <<>>)
  \o <<"apply_sent", "local_apply", "applies_awaited">>
  \o (IF self_.advance_command THEN <<"notify_sent", "notify_awaited">> ELSE <<>>)

\* C1: a row comes out of Synchronize only when every worker has finished
\* its accumulation and no deferred update of the transaction is left
\* unapplied on any worker or on the master; with advance-command the command
\* was advanced and every worker has taken note of it.
C1_Barrier ==
  sync_ret = "Row" =>
    /\ self_.pull_remote => \A w \in Peers : node[w].accumulated
    /\ \A w \in Workers : node[w].updates # "deferred"
    /\ self_.advance_command =>
         command >= 1 /\ \A w \in Peers : node[w].command_advanced

\* C5: InitialPull takes its steps in the stated order; accumulate requests
\* and apply-all reach every peer; apply-all is not sent before every
\* accumulation has completed and the notification is not sent before every
\* apply, the local one included, has completed.
C5_StepOrder ==
  /\ IsPrefix(hs.steps, StatedSteps)
  /\ (self_.pull_remote /\ hs.steps # <<>>) =>
       \A w \in Peers : node[w].accumulate_requested
  /\ (\E w \in Workers : node[w].apply_requested) =>
       /\ \A w \in Peers : node[w].apply_requested
       /\ \A w \in Peers : node[w].accumulate_requested => node[w].accumulated
       /\ node[0].apply_result # "none"
  /\ (\E w \in Workers : node[w].notify_requested) =>
       /\ \A w \in Peers : node[w].notify_requested
       /\ \A w \in Workers : node[w].apply_result # "none"

\* InitialPull ran through all its steps with pull-remote and advance-command
C5_Witness ==
  /\ self_.pull_remote /\ self_.advance_command
  /\ hs.steps = StatedSteps
  /\ sync_ret = "Row"

\* C6: when the apply of any participant, a worker's or the master's own,
\* reports an error, Synchronize.Pull raises: it returns neither a row nor
\* Exhausted.
C6_ApplyFailureRaised ==
  (sync_pc = "idle" /\ sync_ret \in {"Row", "Exhausted"}) =>
    \A w \in Workers : node[w].apply_result # "error"

\* C7: once a worker's accumulation has answered anything but
\* CURSOR_EXHAUSTED, the Pull that awaits it raises, and that Pull advances no
\* command, sends no apply-all and no notification and returns no row.
C7_AccumulateFailure ==
  (\E i \in 1..Len(worker_accumulations) :
      worker_accumulations[i].ready /\ worker_accumulations[i].res # "CURSOR_EXHAUSTED") =>
    /\ sync_pc \in {"accumulate", "idle"}
    /\ sync_pc = "idle" => sync_ret \in Exceptions
    /\ sync_row = NoRow
    /\ ~initial_pull_done_
    /\ command = 0
    /\ \A w \in Workers :
         /\ ~node[w].apply_requested
         /\ node[w].apply_result = "none"
         /\ ~node[w].notify_requested

\* the Pull raised on an accumulation that was still in progress
C7_Witness ==
  /\ hs.accumulate_failed = "CURSOR_IN_PROGRESS"
  /\ sync_pc = "idle"
  /\ sync_ret = "QueryRuntimeException"

\* C11: pull_remote is pulled, and so a remote row returned, only when no
\* locally buffered row is left; Exhausted is returned only when the local
\* buffer is empty and pull_remote, if there is one, has returned Exhausted.
C11_LocalThenRemote ==
  /\ (remote_pulls_initialized_ \/ sync_pc = "pull_remote") => local_frames_ = <<>>
  /\ (sync_ret = "Row" /\ sync_row[1] # 0) => local_frames_ = <<>>
  /\ (sync_pc = "idle" /\ sync_ret = "Exhausted") =>
       /\ local_frames_ = <<>>
       /\ self_.pull_remote => pr_pc = "idle" /\ pr_ret = "Exhausted"

\* a remote row was returned after a locally buffered row had been returned
C11_Witness ==
  sync_ret = "Row" /\ sync_row[1] # 0 /\ hs.local_yielded >= 1

\* C12: Synchronize emits its locally buffered rows in the order in which
\* they were pulled from the input: a local row is returned only when every
\* row still buffered was pulled after it.
C12_InputOrder ==
  (sync_ret = "Row" /\ sync_row[1] = 0) =>
    \A i \in 1..Len(local_frames_) : local_frames_[i][2] > sync_row[2]

\* ------------------------------------------- properties of the pipeline

\* C2: once a Pull of a cursor has returned Exhausted, the next Pull of that
\* cursor, with no Reset in between, produces no row.
C2_ExhaustedStays ==
  (cur_op = "Pull" /\ cur_prev = "Exhausted") => cur_ret # "Row"

RECURSIVE Concat(_)
Concat(ss) == IF ss = <<>> THEN <<>> ELSE Head(ss) \o Concat(Tail(ss))

\* the rows of the range scan for one input row a, in the order of the index
RowsFor(a) ==
  LET f == [NewFrame EXCEPT !.a = a]
      bs == RangeVertices(f)
  IN [i \in 1..Len(bs) |-> [f EXCEPT !.b = bs[i]]]

\* C13: the rows a scan has returned when it returns Exhausted are the
\* concatenation, over the rows of its input in input order, of one row per
\* vertex matched for that input row; an input row without a match
\* contributes nothing and the scan goes on with the next input row.
C13_ScanConcatenation ==
  (plan.top = "ScanRange" /\ cur_op = "Pull" /\ cur_ret = "Exhausted") =>
    cur_rows = Concat([a \in 1..MaxVertices |-> RowsFor(AllVertices[a])])

\* the rows Optional owes its input row a: those of the optional plan or, if
\* there is none, one row with the optional symbol b set to Null
OptionalRowsFor(a) ==
  IF RowsFor(a) = <<>> THEN <<[NewFrame EXCEPT !.a = a]>> ELSE RowsFor(a)

\* C14: the rows Optional returns are, input row after input row, the k >= 1
\* rows of the optional plan for that input row or else exactly one row with
\* the optional symbol Null; when Optional returns Exhausted every input row
\* has had its rows.
C14_OptionalComplete ==
  plan.top = "Optional" =>
    LET all == Concat([a \in 1..MaxVertices |-> OptionalRowsFor(AllVertices[a])])
    IN /\ IsPrefix(cur_rows, all)
       /\ (cur_op = "Pull" /\ cur_ret = "Exhausted") => cur_rows = all

\* Optional is exhausted after forwarding a row of the optional plan and then,
\* for a later input row without a match, a row with Null
C14_Witness ==
  /\ plan.top = "Optional" /\ cur_ret = "Exhausted"
  /\ \E i, j \in 1..Len(cur_rows) :
       i < j /\ cur_rows[i].b # Null /\ cur_rows[j].b = Null

\* the rows Merge owes its input row a: those of the match plan or, if there
\* is none, the one row of the create plan
MergeRowsFor(a) ==
  IF RowsFor(a) = <<>> THEN <<[NewFrame EXCEPT !.a = a, !.b = Created]>> ELSE RowsFor(a)

\* C15: the rows Merge returns are, input row after input row, the rows of
\* the match plan (reset for that input row) or else the one row of the create
\* plan; the create plan was pulled once for every row it gave and never for
\* an input row with a match.
C15_MergeMatchOrCreate ==
  plan.top = "Merge" =>
    LET all == Concat([a \in 1..MaxVertices |-> MergeRowsFor(AllVertices[a])])
    IN /\ IsPrefix(cur_rows, all)
       /\ (cur_op = "Pull" /\ cur_ret = "Exhausted") => cur_rows = all
       /\ cur_op = "Pull" =>
            cursor.create_pulls =
              Cardinality({i \in 1..Len(cur_rows) : cur_rows[i].b = Created})

\* Merge is exhausted after creating for one input row and then forwarding a
\* match for a later one
C15_Witness ==
  /\ plan.top = "Merge" /\ cur_ret = "Exhausted"
  /\ \E i, j \in 1..Len(cur_rows) :
       i < j /\ cur_rows[i].b = Created /\ cur_rows[j].b # Created

\* the rows the input of Aggregate returns before its first result that is
\* not a row
RECURSIVE DrainRows(_, _)
DrainRows(c, f) ==
  LET r == ScanRangePull(c, f)
  IN IF r.ret = "Row" THEN <<r.f>> \o DrainRows(r.c, r.f) ELSE <<>>

AggregateInput == DrainRows(NewScanRangeCursor, NewFrame)

\* the synthetic row of an aggregation without input
IsDefaultRow(f) ==
  /\ f.count = 0
  /\ f.sum = TNull
  /\ f.collect = TList(<<>>)
  /\ f.a = Null

\* C25: over an input without rows Aggregate returns no row when there are
\* group-by expressions and exactly one row of default values (count 0, sum
\* null, collect the empty list, remembered symbols null) when there are none;
\* over an input with rows it returns one row per distinct group, each
\* counting at least one input row, never the default row.
C25_AggregateDefaults ==
  (plan.top = "Aggregate" /\ ~should_abort /\ cur_op = "Pull") =>
    LET rows == AggregateInput
        groups == {GroupOf(rows[i]) : i \in 1..Len(rows)}
    IN /\ (rows = <<>> /\ plan.group_by) => cur_rows = <<>>
       /\ (rows = <<>> /\ ~plan.group_by) =>
            Len(cur_rows) = 1 /\ IsDefaultRow(cur_rows[1])
       /\ rows # <<>> =>
            /\ \A i \in 1..Len(cur_rows) :
                 /\ cur_rows[i].a \in groups
                 /\ ~IsDefaultRow(cur_rows[i])
                 /\ cur_rows[i].count =
                      Cardinality({k \in 1..Len(rows) : GroupOf(rows[k]) = cur_rows[i].a})
                 /\ \A j \in 1..Len(cur_rows) : cur_rows[j].a = cur_rows[i].a => i = j
            /\ cur_ret = "Exhausted" => Len(cur_rows) = Cardinality(groups)

\* the default row was returned for an input without rows, and then Exhausted
C25_Witness ==
  /\ plan.top = "Aggregate" /\ ~plan.group_by /\ ~should_abort
  /\ AggregateInput = <<>>
  /\ cur_ret = "Exhausted"
  /\ Len(cur_rows) = 1 /\ IsDefaultRow(cur_rows[1])

====
